---- MODULE Spec2Model ----
(***************************************************************************)
(* A model of the routing node of maveric/routing (src/routing_node.rs):   *)
(* the event dispatch loop, the bootstrap identity exchange, the message   *)
(* dispatcher with its duplicate filter, the authority resolver, the       *)
(* per-type handlers and the identity cache.                               *)
(*                                                                         *)
(* A node is a record; every operation of the source is an operator from   *)
(* a node record to a node record.  What an operation does to the outside  *)
(* (frames handed to the connection manager, endpoints dialled, callbacks  *)
(* of the application interface) is logged in the fields sent, dialled and *)
(* calls, and the places it passes in the field steps; these fields hold   *)
(* the effects of the node's last operation only.                          *)
(***************************************************************************)
EXTENDS Integers, Sequences, FiniteSets, TLC

VARIABLES nodes, queue, hist

vars == <<nodes, queue, hist>>

(***************************************************************************)
(* Bounds of the model.                                                    *)
(***************************************************************************)
\* names are 0..MaxName (NameType is 512 bits wide in the source)
MaxName == 2
\* endpoints are 1..MaxEndpoint
MaxEndpoint == 2
\* the routing table's group size (RoutingTable::get_group_size())
GroupSize == 2
\* the number of peers target_nodes selects for a far target
Parallelism == 1
\* message ids a node may consume in one behaviour
MaxIds == 2

Names == 0..MaxName
Endpoints == 1..MaxEndpoint

(***************************************************************************)
(* Option<T>: None is the empty sequence, Some(x) the sequence <<x>>.      *)
(***************************************************************************)
None == <<>>
Some(x) == <<x>>
is_some(o) == o # <<>>
is_none(o) == o = <<>>
unwrap(o) == o[1]

(***************************************************************************)
(* HashMap / BTreeMap: functions with a finite domain.                     *)
(***************************************************************************)
EmptyMap == <<>>
contains_key(m, k) == k \in DOMAIN m
insert(m, k, v) == [x \in (DOMAIN m) \cup {k} |-> IF x = k THEN v ELSE m[x]]
remove(m, k) == [x \in (DOMAIN m) \ {k} |-> m[x]]
get(m, k) == IF k \in DOMAIN m THEN Some(m[k]) ELSE None

(***************************************************************************)
(* MessageId is a u32.  TLC's integers are 32 bits wide and signed, so a   *)
(* u32 is kept as two 16-bit limbs <<hi, lo>> of value hi * 2^16 + lo.     *)
(***************************************************************************)
U32Bits == 32
Limb == 2 ^ (U32Bits \div 2)
U32Max == <<Limb - 1, Limb - 1>>
U32Zero == <<0, 0>>
\* v + 1 modulo 2^32
U32Succ(v) ==
    IF v[2] = Limb - 1 THEN <<(v[1] + 1) % Limb, 0>> ELSE <<v[1], v[2] + 1>>

(***************************************************************************)
(* name_type: XOR distance on names.                                       *)
(***************************************************************************)
RECURSIVE xor(_, _)
xor(a, b) ==
    IF a = 0 THEN b
    ELSE IF b = 0 THEN a
    ELSE (((a % 2) + (b % 2)) % 2) + 2 * xor(a \div 2, b \div 2)

\* lhs is strictly closer to target than rhs
closer_to_target(lhs, rhs, target) == xor(lhs, target) < xor(rhs, target)

(***************************************************************************)
(* cbor: encode writes the one-element array [value]; decode reads the     *)
(* first item of the bytes and fails when there is none (UnexpectedEOF)    *)
(* or when the item is not of the type asked for.  Bytes are sequences of  *)
(* items, an item is a record with a field kind naming its type.           *)
(***************************************************************************)
encode(value) == <<value>>

decode(bytes, T) ==
    IF bytes = <<>> THEN [ok |-> FALSE, v |-> <<>>]
    ELSE IF bytes[1].kind # T THEN [ok |-> FALSE, v |-> <<>>]
    ELSE [ok |-> TRUE, v |-> bytes[1]]

(***************************************************************************)
(* types: PublicPmid (the public half of an identity; its name is the hash *)
(* of its key, so the name stands for the identity), addresses.            *)
(***************************************************************************)
PublicPmid(name) == [name |-> name]

SourceAddress(from_node, from_group, reply_to) ==
    [from_node |-> from_node, from_group |-> from_group, reply_to |-> reply_to]

DestinationAddress(dest, reply_to) == [dest |-> dest, reply_to |-> reply_to]

(***************************************************************************)
(* routing_table: a set of NodeInfo records, at most one per name.  The    *)
(* table is ordered by XOR distance to its owner; the order is a function  *)
(* of the set, and is computed where it is needed.                         *)
(***************************************************************************)
NodeInfo(fob, endpoints, connected_endpoint) ==
    [id |-> fob.name, fob |-> fob, endpoints |-> endpoints,
     connected_endpoint |-> connected_endpoint]

RoutingTableNew == {}

size(rt) == Cardinality(rt)

get_group_size == GroupSize

has_node(rt, id) == \E n \in rt : n.id = id

\* the entries of the set S of NodeInfo, closest to target first
RECURSIVE SortedBy(_, _)
SortedBy(S, target) ==
    IF S = {} THEN <<>>
    ELSE LET n == CHOOSE x \in S :
                    \A y \in S : ~closer_to_target(y.id, x.id, target)
         IN <<n>> \o SortedBy(S \ {n}, target)

Take(seq, k) == SubSeq(seq, 1, IF Len(seq) < k THEN Len(seq) ELSE k)

Range(seq) == {seq[i] : i \in DOMAIN seq}

our_close_group(rt, our_id) == Take(SortedBy(rt, our_id), get_group_size)

address_in_our_close_group_range(rt, our_id, id) ==
    IF size(rt) < get_group_size THEN TRUE
    ELSE closer_to_target(id, SortedBy(rt, our_id)[get_group_size].id, our_id)

\* (added, table): the owner and a name already present are refused
add_node(rt, our_id, their_info) ==
    IF their_info.id = our_id \/ has_node(rt, their_info.id)
    THEN [added |-> FALSE, rt |-> rt]
    ELSE [added |-> TRUE, rt |-> rt \cup {their_info}]

drop_node(rt, id) == {n \in rt : n.id # id}

check_node(rt, our_id, id) == id # our_id /\ ~has_node(rt, id)

\* (found, table): the entry that lists the endpoint becomes connected on it
mark_as_connected(rt, endpoint) ==
    [found |-> \E n \in rt : endpoint \in Range(n.endpoints),
     rt |-> {IF endpoint \in Range(n.endpoints)
             THEN [n EXCEPT !.connected_endpoint = Some(endpoint)]
             ELSE n : n \in rt}]

\* swarm: the close group when the target is in its range;
\* parallel: the Parallelism entries closest to the target otherwise
target_nodes(rt, our_id, target) ==
    IF address_in_our_close_group_range(rt, our_id, target)
    THEN our_close_group(rt, our_id)
    ELSE Take(SortedBy(rt, target), Parallelism)

(***************************************************************************)
(* message_header: the header and its derived views.                       *)
(***************************************************************************)
MessageHeader(message_id, destination, source, authority) ==
    [message_id |-> message_id, destination |-> destination,
     source |-> source, authority |-> authority]

Authorities ==
    {"Client", "ClientManager", "NaeManager", "NodeManager", "ManagedNode",
     "Unknown"}

from_node(h) == h.source.from_node
from_group(h) == h.source.from_group
reply_to(h) == h.source.reply_to
is_from_group(h) == is_some(h.source.from_group)
from_authority(h) == h.authority

\* source.reply_to or source.from_node
from(h) ==
    IF is_some(h.source.reply_to) THEN unwrap(h.source.reply_to)
    ELSE h.source.from_node

\* the address a response goes to: the relay and the relayed client when
\* reply_to is set, else the source group or the source node
header_send_to(h) ==
    IF is_some(h.source.reply_to)
    THEN DestinationAddress(h.source.from_node, h.source.reply_to)
    ELSE IF is_some(h.source.from_group)
    THEN DestinationAddress(unwrap(h.source.from_group), None)
    ELSE DestinationAddress(h.source.from_node, None)

create_reply(h, our_name, our_authority) ==
    [h EXCEPT !.source = SourceAddress(our_name, Some(h.destination.dest), None),
              !.destination = header_send_to(h),
              !.authority = our_authority]

create_send_on(h, our_name, our_authority, destination) ==
    [h EXCEPT !.source = SourceAddress(our_name, Some(h.destination.dest),
                                       h.source.reply_to),
              !.destination = DestinationAddress(destination, None),
              !.authority = our_authority]

\* the fingerprint of a message: a function of its header
get_filter(h) == <<h.source.from_node, h.message_id, h.destination.dest>>

(***************************************************************************)
(* message_filter: an expiring set, kept in insertion order (the oldest    *)
(* entry expires first).                                                   *)
(***************************************************************************)
filter_check(filter, entry) == entry \in Range(filter)

filter_add(filter, entry) ==
    IF entry \in Range(filter) THEN filter ELSE Append(filter, entry)

(***************************************************************************)
(* lru_time_cache: an expiring map, kept in insertion order; adding a key  *)
(* again replaces its entry and makes it the newest.                       *)
(***************************************************************************)
SelectSeq2(seq, key) ==
    LET keep(e) == e.key # key IN SelectSeq(seq, keep)

cache_add(cache, key, value) ==
    Append(SelectSeq2(cache, key), [key |-> key, value |-> value])

cache_check(cache, key) == \E i \in DOMAIN cache : cache[i].key = key

cache_len(cache) == Len(cache)

(***************************************************************************)
(* messages: RoutingMessage and the bodies.                                *)
(***************************************************************************)
RoutingMessage(message_type, message_header, body) ==
    [kind |-> "RoutingMessage", message_type |-> message_type,
     message_header |-> message_header, serialised_body |-> encode(body)]

MessageTypeTags ==
    {"BootstrapIdRequest", "BootstrapIdResponse", "ConnectRequest",
     "ConnectResponse", "FindGroup", "FindGroupResponse", "GetData",
     "GetDataResponse", "GetKey", "GetKeyResponse", "GetGroupKey",
     "GetGroupKeyResponse", "Post", "PostResponse", "PutData",
     "PutDataResponse", "UnauthorisedPut", "PutPublicPmid"}

BootstrapIdRequest(sender_id) ==
    [kind |-> "BootstrapIdRequest", sender_id |-> sender_id]

BootstrapIdResponse(sender_id) ==
    [kind |-> "BootstrapIdResponse", sender_id |-> sender_id]

NameAndTypeId(name, type_id) == [name |-> name, type_id |-> type_id]

GetData(requester, name_and_type_id) ==
    [kind |-> "GetData", requester |-> requester,
     name_and_type_id |-> name_and_type_id]

\* data is a Result: [ok |-> TRUE, v |-> bytes] or [ok |-> FALSE, v |-> error]
GetDataResponse(name_and_type_id, data) ==
    [kind |-> "GetDataResponse", name_and_type_id |-> name_and_type_id,
     data |-> data]

PutData(name, data) == [kind |-> "PutData", name |-> name, data |-> data]

PutDataResponse(name, data) ==
    [kind |-> "PutDataResponse", name |-> name, data |-> data]

Post(name, data) == [kind |-> "Post", name |-> name, data |-> data]

ConnectRequest(local_endpoints, external_endpoints, requester_id, receiver_id, requester_fob) ==
    [kind |-> "ConnectRequest", local_endpoints |-> local_endpoints,
     external_endpoints |-> external_endpoints, requester_id |-> requester_id,
     receiver_id |-> receiver_id, requester_fob |-> requester_fob]

ConnectResponse(requester_local_endpoints, requester_external_endpoints, receiver_local_endpoints, receiver_external_endpoints, requester_id, receiver_id, receiver_fob) ==
    [kind |-> "ConnectResponse",
     requester_local_endpoints |-> requester_local_endpoints,
     requester_external_endpoints |-> requester_external_endpoints,
     receiver_local_endpoints |-> receiver_local_endpoints,
     receiver_external_endpoints |-> receiver_external_endpoints,
     requester_id |-> requester_id, receiver_id |-> receiver_id,
     receiver_fob |-> receiver_fob]

FindGroup(requester_id, target_id) ==
    [kind |-> "FindGroup", requester_id |-> requester_id,
     target_id |-> target_id]

FindGroupResponse(group) == [kind |-> "FindGroupResponse", group |-> group]

GetGroupKey(requester, target_id) ==
    [kind |-> "GetGroupKey", requester |-> requester, target_id |-> target_id]

GetGroupKeyResponse(public_sign_keys) ==
    [kind |-> "GetGroupKeyResponse", public_sign_keys |-> public_sign_keys]

GetKey(requester, target_id) ==
    [kind |-> "GetKey", requester |-> requester, target_id |-> target_id]

GetKeyResponse(address, public_sign_key) ==
    [kind |-> "GetKeyResponse", address |-> address,
     public_sign_key |-> public_sign_key]

PutPublicPmid(public_pmid) ==
    [kind |-> "PutPublicPmid", public_pmid |-> public_pmid]

PublicSignKey(name) == [kind |-> "PublicSignKey", name |-> name]

(***************************************************************************)
(* The environment of one operation: what the collaborators answer while   *)
(* it runs.  io_fail: the endpoints the connection manager fails to send   *)
(* to; cache_get, cache_put, handle: what the application interface        *)
(* returns from handle_cache_get and from the type handler's callback;     *)
(* hash_first: the endpoint the iteration of the endpoint HashMap starts   *)
(* with when it holds it (the order of a HashMap is not specified).        *)
(* An interface result is one of                                           *)
(*   [tag |-> "Reply", data |-> bytes], [tag |-> "SendOn", targets |-> seq]*)
(*   [tag |-> "Abort"], [tag |-> "Response", error |-> e].                 *)
(***************************************************************************)
Reply(data) == [tag |-> "Reply", data |-> data]
SendOn(targets) == [tag |-> "SendOn", targets |-> targets]
Abort == [tag |-> "Abort"]
Response(error) == [tag |-> "Response", error |-> error]

Env(io_fail, cache_get, handle, hash_first) ==
    [io_fail |-> io_fail, cache_get |-> cache_get, handle |-> handle,
     hash_first |-> hash_first]

QuietEnv == Env({}, Abort, Abort, 1)

\* the result of a callback declared to return Result<Action, InterfaceError>
is_ok(res) == res.tag \in {"Reply", "SendOn"}

(***************************************************************************)
(* RoutingNode::new.  debug: the build keeps overflow checks and debug     *)
(* assertions (a debug build) or drops them (a release build).             *)
(***************************************************************************)
new(own_id, accepting_on, seed, debug) ==
    [own_id |-> own_id,
     accepting_on |-> accepting_on,
     all_connections_0 |-> EmptyMap,
     all_connections_1 |-> EmptyMap,
     routing_table |-> RoutingTableNew,
     next_message_id |-> seed,
     bootstrap_endpoint |-> None,
     bootstrap_node_id |-> None,
     filter |-> <<>>,
     public_pmid_cache |-> <<>>,
     debug |-> debug,
     panicked |-> FALSE,
     \* the last operation: its name, input, environment, result and effects
     op |-> "new", input |-> <<>>, env |-> QuietEnv, result |-> "Ok",
     sent |-> <<>>, dialled |-> <<>>, calls |-> <<>>, steps |-> <<>>,
     ids_used |-> 0]

\* the start of an operation: the logs of the previous one are dropped
Begin(s, op, input, env) ==
    [s EXCEPT !.op = op, !.input = input, !.env = env, !.result = "Pending",
              !.sent = <<>>, !.dialled = <<>>, !.calls = <<>>,
              !.steps = <<>>]

panic(s) == [s EXCEPT !.panicked = TRUE, !.result = "Panic"]

\* return r from the operation (a panic has no return value)
Ret(s, r) == IF s.panicked THEN s ELSE [s EXCEPT !.result = r]

id(s) == s.own_id

\* [s, id]: the current counter is returned and the counter advanced; the
\* addition overflows at 2^32 - 1: a build with overflow checks panics,
\* one without wraps to 0
get_next_message_id(s) ==
    LET temp == s.next_message_id IN
    IF temp = U32Max /\ s.debug
    THEN [s |-> panic(s), id |-> temp]
    ELSE [s |-> [s EXCEPT !.next_message_id = U32Succ(temp),
                          !.ids_used = @ + 1],
          id |-> temp]

\* connection_manager.send: the frame is handed over, the result is Ok
\* unless the connection manager fails for that endpoint
send_to(s, endpoint, serialised_message) ==
    [s EXCEPT !.sent = Append(@, [endpoint |-> endpoint,
                                  bytes |-> serialised_message,
                                  ok |-> endpoint \notin s.env.io_fail])]

send_to_ok(s, endpoint) == endpoint \notin s.env.io_fail

\* connection_manager.connect
connect(s, endpoints) == [s EXCEPT !.dialled = Append(@, endpoints)]

\* a callback of the application interface
call(s, method, args) ==
    [s EXCEPT !.calls = Append(@, [method |-> method, args |-> args]),
              !.steps = Append(@, method)]

\* the operation passes the place named step
at(s, step) == [s EXCEPT !.steps = Append(@, step)]

send_to_bootstrap_node(s, routing_message) ==
    IF is_none(s.bootstrap_endpoint) THEN panic(s)
    ELSE send_to(s, unwrap(s.bootstrap_endpoint), encode(routing_message))

get_connected_target(s, target) ==
    LET connected(candidate) == is_some(candidate.connected_endpoint)
    IN SelectSeq(target_nodes(s.routing_table, s.own_id, target), connected)

RECURSIVE SendEach(_, _, _)
SendEach(s, peers, serialised_message) ==
    IF peers = <<>> THEN s
    ELSE LET peer == Head(peers)
             s1 == IF contains_key(s.all_connections_1, peer.id)
                   THEN send_to(s, s.all_connections_1[peer.id],
                                serialised_message)
                   ELSE s
         IN SendEach(s1, Tail(peers), serialised_message)

\* a forwarding that gives up at the first send that fails
RECURSIVE SendEachUntilError(_, _, _)
SendEachUntilError(s, peers, serialised_message) ==
    IF peers = <<>> THEN s
    ELSE LET peer == Head(peers)
             known == contains_key(s.all_connections_1, peer.id)
             s1 == IF known
                   THEN send_to(s, s.all_connections_1[peer.id],
                                serialised_message)
                   ELSE s
         IN IF known /\ ~send_to_ok(s, s.all_connections_1[peer.id]) THEN s1
            ELSE SendEachUntilError(s1, Tail(peers), serialised_message)

send_swarm_or_parallel_until_error(s, target, serialised_message) ==
    SendEachUntilError(s, get_connected_target(s, target), serialised_message)

send_swarm_or_parallel(s, target, serialised_message) ==
    SendEach(s, get_connected_target(s, target), serialised_message)

\* a range test against the nearest member of the close group
address_in_close_group_range_nearest(s, address) ==
    IF size(s.routing_table) < get_group_size THEN TRUE
    ELSE LET close_group == our_close_group(s.routing_table, s.own_id)
         IN closer_to_target(address, close_group[1].id, s.own_id)

address_in_close_group_range(s, address) ==
    IF size(s.routing_table) < get_group_size THEN TRUE
    ELSE LET close_group == our_close_group(s.routing_table, s.own_id)
         IN closer_to_target(address, close_group[Len(close_group)].id,
                             s.own_id)

our_source_address(s) ==
    IF is_some(s.bootstrap_endpoint)
       /\ contains_key(s.all_connections_0, unwrap(s.bootstrap_endpoint))
    THEN SourceAddress(s.all_connections_0[unwrap(s.bootstrap_endpoint)],
                       None, Some(s.own_id))
    ELSE SourceAddress(s.own_id, None, None)

our_group_address(s, group_id) == SourceAddress(s.own_id, Some(group_id), None)

\* NameType::new([0u8; NAME_TYPE_LEN])
ZeroName == 0


(***************************************************************************)
(* Message constructors.  One that draws a message id returns [s, msg];    *)
(* msg is meaningless when s.panicked.                                     *)
(***************************************************************************)
construct_find_group_msg(s, find_reply_to) ==
    LET r == get_next_message_id(s)
        header == MessageHeader(r.id,
                                DestinationAddress(s.own_id, find_reply_to),
                                our_source_address(s), "ManagedNode")
    IN [s |-> r.s,
        msg |-> RoutingMessage("FindGroup", header,
                               FindGroup(s.own_id, s.own_id))]

construct_find_group_response_msg(s, original_header, find_group, group) ==
    LET r == get_next_message_id(s)
        header == MessageHeader(r.id, header_send_to(original_header),
                                our_group_address(s, find_group.target_id),
                                "NaeManager")
    IN [s |-> r.s,
        msg |-> RoutingMessage("FindGroupResponse", header,
                               FindGroupResponse(group))]

construct_get_group_key_response_msg(s, original_header, get_group_key, group_keys) ==
    LET header == MessageHeader(original_header.message_id,
                                header_send_to(original_header),
                                our_group_address(s, get_group_key.target_id),
                                "NaeManager")
    IN RoutingMessage("GetGroupKeyResponse", header,
                      GetGroupKeyResponse(group_keys))

construct_connect_request_msg(s, peer_id) ==
    LET r == get_next_message_id(s)
        header == MessageHeader(r.id, DestinationAddress(peer_id, None),
                                our_source_address(s), "ManagedNode")
        connect_request == ConnectRequest(s.accepting_on, <<>>, s.own_id,
                                          peer_id, PublicPmid(s.own_id))
    IN [s |-> r.s,
        msg |-> RoutingMessage("ConnectRequest", header, connect_request)]

\* the debug_assert! is compiled into debug builds only
construct_connect_response_msg(s, original_header, connect_request) ==
    IF s.debug /\ connect_request.receiver_id # s.own_id
    THEN [s |-> panic(s), msg |-> <<>>]
    ELSE
    LET r == get_next_message_id(s)
        header == MessageHeader(r.id, header_send_to(original_header),
                                our_source_address(s), "ManagedNode")
        connect_response ==
            ConnectResponse(connect_request.local_endpoints,
                            connect_request.external_endpoints,
                            s.accepting_on, <<>>,
                            connect_request.requester_id, s.own_id,
                            PublicPmid(s.own_id))
    IN [s |-> r.s,
        msg |-> RoutingMessage("ConnectResponse", header, connect_response)]

construct_get_data_response_msg(s, original_header, get_data, data) ==
    LET r == get_next_message_id(s)
        header == MessageHeader(r.id, header_send_to(original_header),
                                our_source_address(s), "ManagedNode")
        get_data_response ==
            GetDataResponse(get_data.name_and_type_id,
                            [ok |-> TRUE, v |-> data])
    IN [s |-> r.s,
        msg |-> RoutingMessage("GetDataResponse", header, get_data_response)]

(***************************************************************************)
(* The calls of the application: get (node_get here, get being the lookup  *)
(* of a map), put, unauthorised_put, refresh.  A content is a Sendable:    *)
(* its name() and its serialised_contents().                               *)
(***************************************************************************)
Sendable(name, data) == [name |-> name, data |-> data]

node_get(s, type_id, name) ==
    LET destination == DestinationAddress(name, None)
        r == get_next_message_id(s)
        header == MessageHeader(r.id, destination, our_source_address(r.s),
                                "Client")
        request == GetData(our_source_address(r.s),
                           NameAndTypeId(name, type_id))
        message == RoutingMessage("GetData", header, request)
    IN IF r.s.panicked THEN r.s
       ELSE send_swarm_or_parallel(r.s, name, encode(message))

\* a put with the authorities exchanged
put_authority_exchanged(s, destination, content, client_authority) ==
    LET to == DestinationAddress(destination, None)
        authority == IF client_authority THEN "ManagedNode" ELSE "Client"
        request == PutData(content.name, content.data)
        r == get_next_message_id(s)
        header == MessageHeader(r.id, to, our_source_address(r.s), authority)
        message == RoutingMessage("PutData", header, request)
    IN IF r.s.panicked THEN r.s
       ELSE send_swarm_or_parallel(r.s, id(r.s), encode(message))

put(s, destination, content, client_authority) ==
    LET to == DestinationAddress(destination, None)
        authority == IF client_authority THEN "Client" ELSE "ManagedNode"
        request == PutData(content.name, content.data)
        r == get_next_message_id(s)
        header == MessageHeader(r.id, to, our_source_address(r.s), authority)
        message == RoutingMessage("PutData", header, request)
    IN IF r.s.panicked THEN r.s
       ELSE send_swarm_or_parallel(r.s, id(r.s), encode(message))

\* an unauthorised_put routed toward the destination of its header
unauthorised_put_toward_destination(s, destination, content) ==
    LET to == DestinationAddress(destination, None)
        request == PutData(content.name, content.data)
        r == get_next_message_id(s)
        header == MessageHeader(r.id, to, our_source_address(r.s), "Unknown")
        message == RoutingMessage("UnauthorisedPut", header, request)
    IN IF r.s.panicked THEN r.s
       ELSE send_swarm_or_parallel(r.s, destination, encode(message))

unauthorised_put(s, destination, content) ==
    LET to == DestinationAddress(destination, None)
        request == PutData(content.name, content.data)
        r == get_next_message_id(s)
        header == MessageHeader(r.id, to, our_source_address(r.s), "Unknown")
        message == RoutingMessage("UnauthorisedPut", header, request)
    IN IF r.s.panicked THEN r.s
       ELSE send_swarm_or_parallel(r.s, id(r.s), encode(message))

refresh(s, content) == put(s, content.name, content, FALSE)

\* the actions handle_churn can return
RoutingNodeActionPut(destination, content, is_client) ==
    [tag |-> "Put", destination |-> destination, content |-> content,
     is_client |-> is_client]
RoutingNodeActionGet(type_id, name) ==
    [tag |-> "Get", type_id |-> type_id, name |-> name]
RoutingNodeActionRefresh(content) == [tag |-> "Refresh", content |-> content]

\* Post is unimplemented!(): it panics
RECURSIVE invoke_routing_actions(_, _)
invoke_routing_actions(s, routing_actions) ==
    IF routing_actions = <<>> \/ s.panicked THEN s
    ELSE LET routing_action == Head(routing_actions)
             s1 == CASE routing_action.tag = "Put" ->
                           put(s, routing_action.destination,
                               routing_action.content,
                               routing_action.is_client)
                     [] routing_action.tag = "Get" ->
                           node_get(s, routing_action.type_id,
                                    routing_action.name)
                     [] routing_action.tag = "Refresh" ->
                           refresh(s, routing_action.content)
                     [] routing_action.tag = "Post" -> panic(s)
                     [] OTHER -> s
         IN invoke_routing_actions(s1, Tail(routing_actions))

\* actions: what interface.handle_churn returns.  No function of the node
\* calls on_churn.
on_churn(s, close_group, actions) ==
    invoke_routing_actions(
        call(s, "handle_churn", [close_group |-> close_group]), actions)

(***************************************************************************)
(* Bootstrap.                                                              *)
(***************************************************************************)
send_bootstrap_id_request(s) ==
    LET r == get_next_message_id(s)
        message ==
            RoutingMessage("BootstrapIdRequest",
                MessageHeader(r.id, DestinationAddress(ZeroName, None),
                              SourceAddress(id(s), None, None), "ManagedNode"),
                BootstrapIdRequest(id(s)))
    IN IF r.s.panicked THEN r.s ELSE send_to_bootstrap_node(r.s, message)

send_bootstrap_id_response(s, peer_endpoint) ==
    LET r == get_next_message_id(s)
        message ==
            RoutingMessage("BootstrapIdResponse",
                MessageHeader(r.id, DestinationAddress(ZeroName, None),
                              SourceAddress(id(s), None, None), "ManagedNode"),
                BootstrapIdResponse(id(s)))
    IN IF r.s.panicked THEN r.s
       ELSE send_to(r.s, peer_endpoint, encode(message))

\* bootstrapped_to: what connection_manager.bootstrap returns, Some(endpoint)
\* or None when it could not establish a connection
\* bootstrap sending the BootstrapIdRequest before it stores the endpoint
bootstrap_sends_first(s, bootstrapped_to) ==
    IF is_none(bootstrapped_to) THEN Ret(s, "FailedToBootstrap")
    ELSE LET s1 == send_bootstrap_id_request(s)
         IN Ret([s1 EXCEPT !.bootstrap_endpoint = bootstrapped_to], "Ok")

bootstrap(s, bootstrapped_to) ==
    IF is_none(bootstrapped_to) THEN Ret(s, "FailedToBootstrap")
    ELSE LET s1 == [s EXCEPT !.bootstrap_endpoint = bootstrapped_to]
         IN Ret(send_bootstrap_id_request(s1), "Ok")

\* handle_bootstrap_id_response without the FindGroup for the own name
handle_bootstrap_id_response_no_find_group(s, peer_endpoint, bytes, is_client) ==
    IF contains_key(s.all_connections_0, peer_endpoint) THEN s
    ELSE
    LET bootstrap_id_response_msg == decode(bytes, "BootstrapIdResponse") IN
    IF ~bootstrap_id_response_msg.ok THEN s
    ELSE IF ~is_none(s.bootstrap_node_id) THEN panic(s)
    ELSE IF s.bootstrap_endpoint # Some(peer_endpoint) THEN panic(s)
    ELSE
    LET sender_id == bootstrap_id_response_msg.v.sender_id
    IN [s EXCEPT
          !.bootstrap_node_id = Some(sender_id),
          !.all_connections_0 = insert(@, peer_endpoint, sender_id),
          !.all_connections_1 = insert(@, sender_id, peer_endpoint)]

handle_bootstrap_id_response(s, peer_endpoint, bytes, is_client) ==
    IF contains_key(s.all_connections_0, peer_endpoint) THEN s
    ELSE
    LET bootstrap_id_response_msg == decode(bytes, "BootstrapIdResponse") IN
    IF ~bootstrap_id_response_msg.ok THEN s
    ELSE IF ~is_none(s.bootstrap_node_id) THEN panic(s)
    ELSE IF s.bootstrap_endpoint # Some(peer_endpoint) THEN panic(s)
    ELSE
    LET sender_id == bootstrap_id_response_msg.v.sender_id
        s1 == [s EXCEPT
                 !.bootstrap_node_id = Some(sender_id),
                 !.all_connections_0 = insert(@, peer_endpoint, sender_id),
                 !.all_connections_1 = insert(@, sender_id, peer_endpoint)]
        own_id == Some(id(s1))
        r == construct_find_group_msg(s1, own_id)
    IN IF r.s.panicked THEN r.s ELSE send_to_bootstrap_node(r.s, r.msg)

handle_connect(s, peer_endpoint) ==
    [s EXCEPT !.routing_table = mark_as_connected(@, peer_endpoint).rt]

\* handle_lost_connection without the removal of the name's entry
handle_lost_connection_keeps_name(s, peer_endpoint) ==
    [s EXCEPT !.all_connections_0 = remove(@, peer_endpoint)]

\* a loss of the bootstrap peer that forgets the bootstrap peer
handle_lost_connection_forgets_bootstrap(s, peer_endpoint) ==
    LET removed_entry == get(s.all_connections_0, peer_endpoint)
        s1 == [s EXCEPT !.all_connections_0 = remove(@, peer_endpoint)]
        s2 == IF s.bootstrap_endpoint = Some(peer_endpoint)
              THEN [s1 EXCEPT !.bootstrap_endpoint = None,
                              !.bootstrap_node_id = None]
              ELSE s1
    IN IF is_some(removed_entry)
       THEN LET peer_id == unwrap(removed_entry)
            IN [s2 EXCEPT !.routing_table = drop_node(@, peer_id),
                          !.all_connections_1 = remove(@, peer_id)]
       ELSE s2

handle_lost_connection(s, peer_endpoint) ==
    LET removed_entry == get(s.all_connections_0, peer_endpoint)
        s1 == [s EXCEPT !.all_connections_0 = remove(@, peer_endpoint)]
    IN IF is_some(removed_entry)
       THEN LET peer_id == unwrap(removed_entry)
            IN [s1 EXCEPT !.routing_table = drop_node(@, peer_id),
                          !.all_connections_1 = remove(@, peer_id)]
       ELSE s1

\* bootstrap_message_received adopting the name of the sender of a
\* BootstrapIdRequest without its endpoint
bootstrap_message_received_adopts_name_only(s, peer_endpoint, serialised_message) ==
    LET m == decode(serialised_message, "RoutingMessage") IN
    IF ~m.ok THEN Ret(s, "UnknownMessageType")
    ELSE
    LET message == m.v IN
    IF message.message_type = "BootstrapIdRequest"
    THEN LET request == decode(message.serialised_body, "BootstrapIdRequest")
         IN IF ~request.ok THEN Ret(s, "Cbor")
            ELSE
            LET sender_id == request.v.sender_id
                s1 == IF is_none(s.bootstrap_node_id)
                      THEN [s EXCEPT !.bootstrap_node_id = Some(sender_id)]
                      ELSE s
                s2 == [s1 EXCEPT
                         !.all_connections_0 =
                             insert(@, peer_endpoint, sender_id),
                         !.all_connections_1 =
                             insert(@, sender_id, peer_endpoint)]
            IN Ret(send_bootstrap_id_response(s2, peer_endpoint), "Ok")
    ELSE IF message.message_type = "BootstrapIdResponse"
    THEN Ret(handle_bootstrap_id_response(
                 s, peer_endpoint, message.serialised_body,
                 message.message_header.authority = "Client"), "Ok")
    ELSE Ret(s, "Ok")

\* bootstrap_message_received adopting the sender of every
\* BootstrapIdRequest as the bootstrap peer
bootstrap_message_received_adopts_latest(s, peer_endpoint, serialised_message) ==
    LET m == decode(serialised_message, "RoutingMessage") IN
    IF ~m.ok THEN Ret(s, "UnknownMessageType")
    ELSE
    LET message == m.v IN
    IF message.message_type = "BootstrapIdRequest"
    THEN LET request == decode(message.serialised_body, "BootstrapIdRequest")
         IN IF ~request.ok THEN Ret(s, "Cbor")
            ELSE
            LET sender_id == request.v.sender_id
                s2 == [s EXCEPT
                         !.bootstrap_node_id = Some(sender_id),
                         !.bootstrap_endpoint = Some(peer_endpoint),
                         !.all_connections_0 =
                             insert(@, peer_endpoint, sender_id),
                         !.all_connections_1 =
                             insert(@, sender_id, peer_endpoint)]
            IN Ret(send_bootstrap_id_response(s2, peer_endpoint), "Ok")
    ELSE IF message.message_type = "BootstrapIdResponse"
    THEN Ret(handle_bootstrap_id_response(
                 s, peer_endpoint, message.serialised_body,
                 message.message_header.authority = "Client"), "Ok")
    ELSE Ret(s, "Ok")

\* an identity exchange that answers also what does not decode
bootstrap_message_received_answers_all(s, peer_endpoint, serialised_message) ==
    LET m == decode(serialised_message, "RoutingMessage") IN
    IF ~m.ok
    THEN Ret(send_bootstrap_id_response(s, peer_endpoint),
             "UnknownMessageType")
    ELSE
    LET message == m.v IN
    IF message.message_type = "BootstrapIdRequest"
    THEN LET request == decode(message.serialised_body, "BootstrapIdRequest")
         IN IF ~request.ok THEN Ret(s, "Cbor")
            ELSE
            LET sender_id == request.v.sender_id
                s1 == IF is_none(s.bootstrap_node_id)
                      THEN [s EXCEPT
                              !.bootstrap_node_id = Some(sender_id),
                              !.bootstrap_endpoint = Some(peer_endpoint)]
                      ELSE s
                s2 == [s1 EXCEPT
                         !.all_connections_0 =
                             insert(@, peer_endpoint, sender_id),
                         !.all_connections_1 =
                             insert(@, sender_id, peer_endpoint)]
            IN Ret(send_bootstrap_id_response(s2, peer_endpoint), "Ok")
    ELSE IF message.message_type = "BootstrapIdResponse"
    THEN Ret(handle_bootstrap_id_response(
                 s, peer_endpoint, message.serialised_body,
                 message.message_header.authority = "Client"), "Ok")
    ELSE Ret(s, "Ok")

bootstrap_message_received(s, peer_endpoint, serialised_message) ==
    LET m == decode(serialised_message, "RoutingMessage") IN
    IF ~m.ok THEN Ret(s, "UnknownMessageType")
    ELSE
    LET message == m.v IN
    IF message.message_type = "BootstrapIdRequest"
    THEN LET request == decode(message.serialised_body, "BootstrapIdRequest")
         IN IF ~request.ok THEN Ret(s, "Cbor")
            ELSE
            LET sender_id == request.v.sender_id
                s1 == IF is_none(s.bootstrap_node_id)
                      THEN [s EXCEPT
                              !.bootstrap_node_id = Some(sender_id),
                              !.bootstrap_endpoint = Some(peer_endpoint)]
                      ELSE s
                s2 == [s1 EXCEPT
                         !.all_connections_0 =
                             insert(@, peer_endpoint, sender_id),
                         !.all_connections_1 =
                             insert(@, sender_id, peer_endpoint)]
            IN Ret(send_bootstrap_id_response(s2, peer_endpoint), "Ok")
    ELSE IF message.message_type = "BootstrapIdResponse"
    THEN Ret(handle_bootstrap_id_response(
                 s, peer_endpoint, message.serialised_body,
                 message.message_header.authority = "Client"), "Ok")
    ELSE Ret(s, "Ok")


(***************************************************************************)
(* The authority resolver.                                                 *)
(***************************************************************************)
\* the resolver with the row of NodeManager before that of NaeManager
our_authority_node_manager_first(s, element, header) ==
    IF ~is_from_group(header)
       /\ address_in_our_close_group_range(s.routing_table, s.own_id,
                                           from_node(header))
       /\ header.destination.dest # element
    THEN "ClientManager"
    ELSE IF is_from_group(header)
            /\ address_in_our_close_group_range(s.routing_table, s.own_id,
                                                header.destination.dest)
            /\ header.destination.dest # s.own_id
    THEN "NodeManager"
    ELSE IF address_in_our_close_group_range(s.routing_table, s.own_id,
                                             element)
            /\ header.destination.dest = element
    THEN "NaeManager"
    ELSE IF (IF is_some(from_group(header))
             THEN address_in_our_close_group_range(
                      s.routing_table, s.own_id, unwrap(from_group(header)))
             ELSE FALSE)
            /\ header.destination.dest = s.own_id
    THEN "ManagedNode"
    ELSE "Unknown"

\* the resolver with the row of ManagedNode before that of NaeManager
our_authority_managed_node_first(s, element, header) ==
    IF ~is_from_group(header)
       /\ address_in_our_close_group_range(s.routing_table, s.own_id,
                                           from_node(header))
       /\ header.destination.dest # element
    THEN "ClientManager"
    ELSE IF (IF is_some(from_group(header))
             THEN address_in_our_close_group_range(
                      s.routing_table, s.own_id, unwrap(from_group(header)))
             ELSE FALSE)
            /\ header.destination.dest = s.own_id
    THEN "ManagedNode"
    ELSE IF address_in_our_close_group_range(s.routing_table, s.own_id,
                                             element)
            /\ header.destination.dest = element
    THEN "NaeManager"
    ELSE IF is_from_group(header)
            /\ address_in_our_close_group_range(s.routing_table, s.own_id,
                                                header.destination.dest)
            /\ header.destination.dest # s.own_id
    THEN "NodeManager"
    ELSE "Unknown"

our_authority(s, element, header) ==
    IF ~is_from_group(header)
       /\ address_in_our_close_group_range(s.routing_table, s.own_id,
                                           from_node(header))
       /\ header.destination.dest # element
    THEN "ClientManager"
    ELSE IF address_in_our_close_group_range(s.routing_table, s.own_id,
                                             element)
            /\ header.destination.dest = element
    THEN "NaeManager"
    ELSE IF is_from_group(header)
            /\ address_in_our_close_group_range(s.routing_table, s.own_id,
                                                header.destination.dest)
            /\ header.destination.dest # s.own_id
    THEN "NodeManager"
    ELSE IF (IF is_some(from_group(header))
             THEN address_in_our_close_group_range(
                      s.routing_table, s.own_id, unwrap(from_group(header)))
             ELSE FALSE)
            /\ header.destination.dest = s.own_id
    THEN "ManagedNode"
    ELSE "Unknown"

(***************************************************************************)
(* The per-type handlers.  Each returns the node with result set.          *)
(***************************************************************************)
\* the tail shared by handle_connect_request and handle_find_group: the
\* response also goes straight to a relayed requester
ReplyToRelayed(s, original_header, routing_msg) ==
    IF is_some(original_header.source.reply_to)
    THEN LET reply_to_address == unwrap(original_header.source.reply_to)
             found == get(s.all_connections_1, reply_to_address)
         IN IF is_some(found)
            THEN Ret(send_to(s, unwrap(found), encode(routing_msg)),
                     IF send_to_ok(s, unwrap(found)) THEN "Ok" ELSE "Io")
            ELSE Ret(s, "Other")
    ELSE Ret(s, "Ok")

\* the loop of a SendOn action: one copy per destination
RECURSIVE SendOnEach(_, _, _, _, _, _)
SendOnEach(s, header, authority, message_type, body, dest_nodes) ==
    IF dest_nodes = <<>> THEN s
    ELSE LET dest_node == Head(dest_nodes)
             send_on_header ==
                 create_send_on(header, s.own_id, authority, dest_node)
             routing_msg == RoutingMessage(message_type, send_on_header, body)
         IN SendOnEach(send_swarm_or_parallel(s, dest_node,
                                              encode(routing_msg)),
                       header, authority, message_type, body,
                       Tail(dest_nodes))

handle_get_group_key(s, original_header, body) ==
    LET d == decode(body, "GetGroupKey") IN
    IF ~d.ok THEN Ret(s, "Cbor")
    ELSE
    LET get_group_key == d.v
        close == our_close_group(s.routing_table, s.own_id)
        group_keys == [i \in 1..Len(close) |->
                           <<close[i].fob.name, PublicSignKey(close[i].fob.name)>>]
                      \o << <<s.own_id, PublicSignKey(s.own_id)>> >>
        routing_msg == construct_get_group_key_response_msg(
                           s, original_header, get_group_key, group_keys)
        encoded_msg == encode(routing_msg)
        original_group == from_group(original_header)
    IN Ret(IF is_some(original_group)
           THEN send_swarm_or_parallel(s, unwrap(original_group), encoded_msg)
           ELSE s, "Ok")

\* the handler answering a requester the routing table refuses
handle_connect_request_answers_refused(s, original_header, body) ==
    LET d == decode(body, "ConnectRequest") IN
    IF ~d.ok THEN Ret(s, "Cbor")
    ELSE
    LET connect_request == d.v
        peer_endpoints == connect_request.local_endpoints
                          \o connect_request.external_endpoints
        peer_node_info == NodeInfo(connect_request.requester_fob,
                                   peer_endpoints, None)
        a == add_node(s.routing_table, s.own_id, peer_node_info)
        s1 == IF a.added THEN [s EXCEPT !.routing_table = a.rt] ELSE s
        s2 == connect(connect(s1, connect_request.local_endpoints),
                      connect_request.external_endpoints)
        r == construct_connect_response_msg(s2, original_header,
                                            connect_request)
    IN IF r.s.panicked THEN r.s
       ELSE
       LET routing_msg == r.msg
           s3 == send_swarm_or_parallel(r.s, connect_request.requester_id,
                                        encode(routing_msg))
           s4 == IF is_some(s3.bootstrap_endpoint)
                 THEN send_to_bootstrap_node(s3, routing_msg)
                 ELSE s3
           s5 == ReplyToRelayed(s4, original_header, routing_msg)
       IN IF a.added THEN s5 ELSE Ret(s5, "AlreadyConnected")

handle_connect_request(s, original_header, body) ==
    LET d == decode(body, "ConnectRequest") IN
    IF ~d.ok THEN Ret(s, "Cbor")
    ELSE
    LET connect_request == d.v
        peer_endpoints == connect_request.local_endpoints
                          \o connect_request.external_endpoints
        peer_node_info == NodeInfo(connect_request.requester_fob,
                                   peer_endpoints, None)
        a == add_node(s.routing_table, s.own_id, peer_node_info)
    IN IF ~a.added THEN Ret(s, "AlreadyConnected")
       ELSE
       LET s1 == [s EXCEPT !.routing_table = a.rt]
           s2 == connect(connect(s1, connect_request.local_endpoints),
                         connect_request.external_endpoints)
           r == construct_connect_response_msg(s2, original_header,
                                               connect_request)
       IN IF r.s.panicked THEN r.s
          ELSE
          LET routing_msg == r.msg
              s3 == send_swarm_or_parallel(r.s, connect_request.requester_id,
                                           encode(routing_msg))
              s4 == IF is_some(s3.bootstrap_endpoint)
                    THEN send_to_bootstrap_node(s3, routing_msg)
                    ELSE s3
          IN ReplyToRelayed(s4, original_header, routing_msg)

handle_connect_response(s, body) ==
    LET d == decode(body, "ConnectResponse") IN
    IF ~d.ok THEN Ret(s, "Cbor")
    ELSE
    LET connect_response == d.v
        peer_endpoints == connect_response.receiver_local_endpoints
                          \o connect_response.receiver_external_endpoints
        peer_node_info == NodeInfo(connect_response.receiver_fob,
                                   peer_endpoints, None)
        a == add_node(s.routing_table, s.own_id, peer_node_info)
    IN IF ~a.added THEN Ret(s, "Ok")
       ELSE Ret(connect(connect([s EXCEPT !.routing_table = a.rt],
                                connect_response.receiver_local_endpoints),
                        connect_response.receiver_external_endpoints), "Ok")

handle_find_group(s, original_header, body) ==
    LET d == decode(body, "FindGroup") IN
    IF ~d.ok THEN Ret(s, "Cbor")
    ELSE
    LET find_group == d.v
        close == our_close_group(s.routing_table, s.own_id)
        group == [i \in 1..Len(close) |-> close[i].fob]
                 \o <<PublicPmid(s.own_id)>>
        r == construct_find_group_response_msg(s, original_header, find_group,
                                               group)
    IN IF r.s.panicked THEN r.s
       ELSE ReplyToRelayed(
                send_swarm_or_parallel(r.s, header_send_to(original_header).dest,
                                       encode(r.msg)),
                original_header, r.msg)

\* the request going to every advertised peer, wanted or not
check_and_send_connect_request_msg_unchecked(s, peer_id) ==
    LET r == construct_connect_request_msg(s, peer_id) IN
    IF r.s.panicked THEN r.s
    ELSE LET s1 == send_swarm_or_parallel(r.s, peer_id, encode(r.msg))
         IN IF is_some(s1.bootstrap_endpoint)
            THEN send_to_bootstrap_node(s1, r.msg)
            ELSE s1

check_and_send_connect_request_msg(s, peer_id) ==
    IF ~check_node(s.routing_table, s.own_id, peer_id) THEN s
    ELSE
    LET r == construct_connect_request_msg(s, peer_id) IN
    IF r.s.panicked THEN r.s
    ELSE LET s1 == send_swarm_or_parallel(r.s, peer_id, encode(r.msg))
         IN IF is_some(s1.bootstrap_endpoint)
            THEN send_to_bootstrap_node(s1, r.msg)
            ELSE s1

RECURSIVE CheckEach(_, _)
CheckEach(s, group) ==
    IF group = <<>> \/ s.panicked THEN s
    ELSE CheckEach(check_and_send_connect_request_msg(s, Head(group).name),
                   Tail(group))

\* handle_find_group_response that asks nobody of the group to connect
handle_find_group_response_asks_nobody(s, original_header, body) ==
    LET d == decode(body, "FindGroupResponse") IN
    IF ~d.ok THEN Ret(s, "Cbor")
    ELSE Ret(s, "Ok")

handle_find_group_response(s, original_header, body) ==
    LET d == decode(body, "FindGroupResponse") IN
    IF ~d.ok THEN Ret(s, "Cbor")
    ELSE Ret(CheckEach(s, d.v.group), "Ok")

\* the handler dropping the request the application answers with an error
handle_get_data_drops_error(s, header, body) ==
    LET d == decode(body, "GetData") IN
    IF ~d.ok THEN Ret(s, "Cbor")
    ELSE
    LET get_data == d.v
        type_id == get_data.name_and_type_id.type_id
        authority == our_authority(s, get_data.name_and_type_id.name, header)
        name == get_data.name_and_type_id.name
        s1 == call(s, "handle_get",
                   [type_id |-> type_id, name |-> name,
                    our_authority |-> authority,
                    from_authority |-> from_authority(header),
                    from |-> from(header)])
        res == s.env.handle
        response(data) ==
            RoutingMessage("GetDataResponse",
                           create_reply(header, s.own_id, authority),
                           GetDataResponse(get_data.name_and_type_id, data))
    IN CASE res.tag = "Reply" ->
              Ret(send_swarm_or_parallel(
                      s1, header_send_to(header).dest,
                      encode(response([ok |-> TRUE, v |-> res.data]))), "Ok")
         [] res.tag = "SendOn" ->
              Ret(SendOnEach(s1, header, authority, "GetData", get_data,
                             res.targets), "Ok")
         [] OTHER -> Ret(s1, "Ok")

handle_get_data(s, header, body) ==
    LET d == decode(body, "GetData") IN
    IF ~d.ok THEN Ret(s, "Cbor")
    ELSE
    LET get_data == d.v
        type_id == get_data.name_and_type_id.type_id
        authority == our_authority(s, get_data.name_and_type_id.name, header)
        name == get_data.name_and_type_id.name
        s1 == call(s, "handle_get",
                   [type_id |-> type_id, name |-> name,
                    our_authority |-> authority,
                    from_authority |-> from_authority(header),
                    from |-> from(header)])
        res == s.env.handle
        response(data) ==
            RoutingMessage("GetDataResponse",
                           create_reply(header, s.own_id, authority),
                           GetDataResponse(get_data.name_and_type_id, data))
    IN CASE res.tag = "Reply" ->
              Ret(send_swarm_or_parallel(
                      s1, header_send_to(header).dest,
                      encode(response([ok |-> TRUE, v |-> res.data]))), "Ok")
         [] res.tag = "SendOn" ->
              Ret(SendOnEach(s1, header, authority, "GetData", get_data,
                             res.targets), "Ok")
         [] res.tag = "Abort" -> Ret(s1, "Ok")
         [] res.tag = "Response" ->
              Ret(send_swarm_or_parallel(
                      s1, header_send_to(header).dest,
                      encode(response([ok |-> FALSE, v |-> res.error]))), "Ok")

\* the type id of a public key
GetKeyTypeId == 106

handle_get_key(s, header, body) ==
    LET d == decode(body, "GetKey") IN
    IF ~d.ok THEN Ret(s, "Cbor")
    ELSE
    LET get_key == d.v
        type_id == GetKeyTypeId
        authority == our_authority(s, get_key.target_id, header)
        s1 == call(s, "handle_get_key",
                   [type_id |-> type_id, name |-> get_key.target_id,
                    our_authority |-> authority,
                    from_authority |-> from_authority(header),
                    from |-> from(header)])
        action == s.env.handle
    IN IF ~is_ok(action) THEN Ret(s1, "Interface")
       ELSE IF action.tag = "Reply"
       THEN LET k == decode(action.data, "PublicSignKey") IN
            IF ~k.ok THEN Ret(s1, "Cbor")
            ELSE LET routing_msg ==
                         RoutingMessage(
                             "GetKeyResponse",
                             create_reply(header, s.own_id, authority),
                             GetKeyResponse(get_key.target_id, k.v))
                 IN Ret(send_swarm_or_parallel(
                            s1, header_send_to(header).dest,
                            encode(routing_msg)), "Ok")
       ELSE Ret(SendOnEach(s1, header, authority, "GetKey", get_key,
                           action.targets), "Ok")

handle_get_data_response(s, header, body) ==
    LET d == decode(body, "GetDataResponse") IN
    IF ~d.ok THEN Ret(s, "Cbor")
    ELSE Ret(call(s, "handle_get_response",
                  [from |-> from(header), response |-> d.v.data]), "Ok")

handle_post(s, header, body) ==
    LET d == decode(body, "Post") IN
    IF ~d.ok THEN Ret(s, "Cbor")
    ELSE
    LET post == d.v
        authority == our_authority(s, post.name, header)
        s1 == call(s, "handle_post",
                   [our_authority |-> authority,
                    from_authority |-> header.authority,
                    from |-> from(header), name |-> post.name,
                    data |-> post.data])
        action == s.env.handle
    IN IF ~is_ok(action) THEN Ret(s1, "Interface")
       ELSE IF action.tag = "Reply" THEN Ret(s1, "Ok")
       ELSE Ret(SendOnEach(s1, header, authority, "Post", post,
                           action.targets), "Ok")

handle_post_response(s, header, body) == Ret(s, "Ok")

\* the handler taking every advertised name in range, whatever the header
handle_put_public_pmid_any_destination(s, header, body) ==
    LET d == decode(body, "PutPublicPmid") IN
    IF ~d.ok THEN Ret(s, "Cbor")
    ELSE
    LET put_public_pmid == d.v IN
    IF address_in_our_close_group_range(s.routing_table, s.own_id,
                                        put_public_pmid.public_pmid.name)
    THEN Ret([s EXCEPT !.public_pmid_cache =
                           cache_add(@, put_public_pmid.public_pmid.name,
                                     put_public_pmid.public_pmid)], "Ok")
    ELSE Ret(s, "BadAuthority")

\* the handler caching the identity before it looks at its authority
handle_put_public_pmid_caches_first(s, header, body) ==
    LET d == decode(body, "PutPublicPmid") IN
    IF ~d.ok THEN Ret(s, "Cbor")
    ELSE
    LET put_public_pmid == d.v
        s1 == [s EXCEPT !.public_pmid_cache =
                            cache_add(@, put_public_pmid.public_pmid.name,
                                      put_public_pmid.public_pmid)]
    IN
    IF our_authority(s, put_public_pmid.public_pmid.name, header) = "NaeManager"
    THEN Ret(s1, "Ok")
    ELSE Ret(s1, "BadAuthority")

handle_put_public_pmid(s, header, body) ==
    LET d == decode(body, "PutPublicPmid") IN
    IF ~d.ok THEN Ret(s, "Cbor")
    ELSE
    LET put_public_pmid == d.v IN
    IF our_authority(s, put_public_pmid.public_pmid.name, header) = "NaeManager"
    THEN Ret([s EXCEPT !.public_pmid_cache =
                           cache_add(@, put_public_pmid.public_pmid.name,
                                     put_public_pmid.public_pmid)], "Ok")
    ELSE Ret(s, "BadAuthority")

\* the handler replying to the node the message came from, whatever client
\* it came for
handle_put_data_replies_to_node(s, header, body) ==
    LET d == decode(body, "PutData") IN
    IF ~d.ok THEN Ret(s, "Cbor")
    ELSE
    LET put_data == d.v
        authority == our_authority(s, put_data.name, header)
        to == header_send_to(header)
        s1 == call(s, "handle_put",
                   [our_authority |-> authority,
                    from_authority |-> from_authority(header),
                    from |-> from(header), to |-> to, data |-> put_data.data])
        action == s.env.handle
    IN IF ~is_ok(action) THEN Ret(s1, "Interface")
       ELSE IF action.tag = "Reply"
       THEN LET reply_header == create_reply(header, s.own_id, authority)
                put_data_response ==
                    PutDataResponse(put_data.name,
                                    [ok |-> TRUE, v |-> action.data])
                routing_msg == RoutingMessage("PutDataResponse", reply_header,
                                              put_data_response)
            IN Ret(send_swarm_or_parallel(s1, from_node(header),
                                          encode(routing_msg)), "Ok")
       ELSE Ret(SendOnEach(s1, header, authority, "PutData", put_data,
                           action.targets), "Ok")

handle_put_data(s, header, body) ==
    LET d == decode(body, "PutData") IN
    IF ~d.ok THEN Ret(s, "Cbor")
    ELSE
    LET put_data == d.v
        authority == our_authority(s, put_data.name, header)
        to == header_send_to(header)
        s1 == call(s, "handle_put",
                   [our_authority |-> authority,
                    from_authority |-> from_authority(header),
                    from |-> from(header), to |-> to, data |-> put_data.data])
        action == s.env.handle
    IN IF ~is_ok(action) THEN Ret(s1, "Interface")
       ELSE IF action.tag = "Reply"
       THEN LET reply_header == create_reply(header, s.own_id, authority)
                reply_target ==
                    IF authority = "ClientManager" /\ is_some(reply_to(header))
                    THEN unwrap(reply_to(header))
                    ELSE from(header)
                put_data_response ==
                    PutDataResponse(put_data.name,
                                    [ok |-> TRUE, v |-> action.data])
                routing_msg == RoutingMessage("PutDataResponse", reply_header,
                                              put_data_response)
            IN Ret(send_swarm_or_parallel(s1, reply_target,
                                          encode(routing_msg)), "Ok")
       ELSE Ret(SendOnEach(s1, header, authority, "PutData", put_data,
                           action.targets), "Ok")

\* the handler that keeps the response from the application
handle_put_data_response_silent(s, header, body) ==
    LET d == decode(body, "PutDataResponse") IN
    IF ~d.ok THEN Ret(s, "Cbor")
    ELSE Ret(s, "Ok")

handle_put_data_response(s, header, body) ==
    LET d == decode(body, "PutDataResponse") IN
    IF ~d.ok THEN Ret(s, "Cbor")
    ELSE Ret(call(s, "handle_put_response",
                  [from_authority |-> from_authority(header),
                   from |-> from(header), response |-> d.v.data]), "Ok")


(***************************************************************************)
(* The message dispatcher.                                                 *)
(***************************************************************************)
\* the first key the iteration of the endpoint map yields
first_key(s) ==
    IF s.env.hash_first \in DOMAIN s.all_connections_0 THEN s.env.hash_first
    ELSE CHOOSE endpoint \in DOMAIN s.all_connections_0 : TRUE

\* the match without the arm of the UnauthorisedPut
dispatch_authorised_only(s, message_type, header, body) ==
    CASE message_type = "GetKey" -> handle_get_key(s, header, body)
      [] message_type = "GetGroupKey" -> handle_get_group_key(s, header, body)
      [] message_type = "ConnectRequest" ->
             handle_connect_request(s, header, body)
      [] message_type = "ConnectResponse" -> handle_connect_response(s, body)
      [] message_type = "FindGroup" -> handle_find_group(s, header, body)
      [] message_type = "FindGroupResponse" ->
             handle_find_group_response(s, header, body)
      [] message_type = "GetData" -> handle_get_data(s, header, body)
      [] message_type = "GetDataResponse" ->
             handle_get_data_response(s, header, body)
      [] message_type = "Post" -> handle_post(s, header, body)
      [] message_type = "PostResponse" -> handle_post_response(s, header, body)
      [] message_type = "PutData" -> handle_put_data(s, header, body)
      [] message_type = "PutDataResponse" ->
             handle_put_data_response(s, header, body)
      [] message_type = "PutPublicPmid" ->
             handle_put_public_pmid(s, header, body)
      [] OTHER -> Ret(s, "UnknownMessageType")

\* the match on message.message_type
dispatch(s, message_type, header, body) ==
    CASE message_type = "UnauthorisedPut" -> handle_put_data(s, header, body)
      [] message_type = "GetKey" -> handle_get_key(s, header, body)
      [] message_type = "GetGroupKey" -> handle_get_group_key(s, header, body)
      [] message_type = "ConnectRequest" ->
             handle_connect_request(s, header, body)
      [] message_type = "ConnectResponse" -> handle_connect_response(s, body)
      [] message_type = "FindGroup" -> handle_find_group(s, header, body)
      [] message_type = "FindGroupResponse" ->
             handle_find_group_response(s, header, body)
      [] message_type = "GetData" -> handle_get_data(s, header, body)
      [] message_type = "GetDataResponse" ->
             handle_get_data_response(s, header, body)
      [] message_type = "Post" -> handle_post(s, header, body)
      [] message_type = "PostResponse" -> handle_post_response(s, header, body)
      [] message_type = "PutData" -> handle_put_data(s, header, body)
      [] message_type = "PutDataResponse" ->
             handle_put_data_response(s, header, body)
      [] message_type = "PutPublicPmid" ->
             handle_put_public_pmid(s, header, body)
      [] OTHER -> Ret(s, "UnknownMessageType")

\* the dispatcher forwarding only what it does not handle
forward_and_handle_unhandled_only(s, message, serialised_message) ==
    LET header == message.message_header
        body == message.serialised_body
        s1 == IF address_in_close_group_range(s, header.destination.dest)
              THEN at(s, "forward")
              ELSE send_swarm_or_parallel(at(s, "forward"),
                                          header.destination.dest,
                                          serialised_message)
        relay_response == is_some(header.destination.reply_to)
                          /\ header.destination.dest = s.own_id
        known == relay_response
                 /\ contains_key(s.all_connections_1,
                                 unwrap(header.destination.reply_to))
    IN IF relay_response /\ ~known /\ DOMAIN s.all_connections_0 # {}
       THEN Ret(send_to(at(s1, "relay"), first_key(s1), serialised_message),
                "Ok")
       ELSE
       LET s2 == IF known
                 THEN send_to(at(s1, "relay"),
                              s.all_connections_1[
                                  unwrap(header.destination.reply_to)],
                              serialised_message)
                 ELSE s1
       IN IF ~address_in_close_group_range(s2, header.destination.dest)
          THEN Ret(at(s2, "not_for_us"), "Ok")
          ELSE dispatch(at(s2, "dispatch"), message.message_type, header,
                        body)

\* a relay that takes any registered endpoint also for a registered client
forward_and_handle_relay_any(s, message, serialised_message) ==
    LET header == message.message_header
        body == message.serialised_body
        s1 == send_swarm_or_parallel(at(s, "forward"),
                                     header.destination.dest,
                                     serialised_message)
        relay_response == is_some(header.destination.reply_to)
                          /\ header.destination.dest = s.own_id
    IN IF relay_response /\ DOMAIN s.all_connections_0 # {}
       THEN Ret(send_to(at(s1, "relay"), first_key(s1), serialised_message),
                "Ok")
       ELSE IF ~address_in_close_group_range(s1, header.destination.dest)
       THEN Ret(at(s1, "not_for_us"), "Ok")
       ELSE dispatch(at(s1, "dispatch"), message.message_type, header, body)

\* from the opportunistic forwarding on
forward_and_handle(s, message, serialised_message) ==
    LET header == message.message_header
        body == message.serialised_body
        s1 == send_swarm_or_parallel(at(s, "forward"),
                                     header.destination.dest,
                                     serialised_message)
        relay_response == is_some(header.destination.reply_to)
                          /\ header.destination.dest = s.own_id
        known == relay_response
                 /\ contains_key(s.all_connections_1,
                                 unwrap(header.destination.reply_to))
    IN IF relay_response /\ ~known /\ DOMAIN s.all_connections_0 # {}
       THEN Ret(send_to(at(s1, "relay"), first_key(s1), serialised_message),
                "Ok")
       ELSE
       LET s2 == IF known
                 THEN send_to(at(s1, "relay"),
                              s.all_connections_1[
                                  unwrap(header.destination.reply_to)],
                              serialised_message)
                 ELSE s1
       IN IF ~address_in_close_group_range(s2, header.destination.dest)
          THEN Ret(at(s2, "not_for_us"), "Ok")
          ELSE dispatch(at(s2, "dispatch"), message.message_type, header,
                        body)

\* a filter check that never finds the fingerprint
already_seen_never(s, header) == FALSE

\* a filter check that knows only the messages meant for this node
already_seen_if_for_us(s, header) ==
    /\ header.destination.dest = s.own_id
    /\ filter_check(s.filter, get_filter(header))

\* an insertion that forgets the fingerprint
add_to_filter_forgets(s, header) == at(s, "filter_add")

\* the filter check, and the insertion that follows it
already_seen(s, header) == filter_check(s.filter, get_filter(header))

add_to_filter(s, header) ==
    [at(s, "filter_add") EXCEPT !.filter = filter_add(@, get_filter(header))]

\* message_received answering from the cache without leaving the processing
message_received_forwards_on_hit(s, peer_id, serialised_message) ==
    LET m == decode(serialised_message, "RoutingMessage") IN
    IF ~m.ok THEN Ret(s, "Cbor")
    ELSE
    LET message == m.v
        header == message.message_header
        body == message.serialised_body
    IN
    IF already_seen(s, header)
    THEN Ret(at(s, "filtered"), "FilterCheckFailed")
    ELSE
    LET s1 == add_to_filter(s, header)
        is_response == message.message_type = "GetDataResponse"
        get_data_response == decode(body, "GetDataResponse")
    IN
    IF is_response /\ ~get_data_response.ok THEN Ret(s1, "Cbor")
    ELSE
    LET s2 == IF is_response /\ get_data_response.v.data.ok
                 /\ Len(get_data_response.v.data.v) # 0
              THEN call(s1, "handle_cache_put",
                        [from_authority |-> from_authority(header),
                         from |-> from(header),
                         data |-> get_data_response.v.data.v])
              ELSE s1
        is_get == message.message_type = "GetData"
        get_data == decode(body, "GetData")
    IN
    IF is_get /\ ~get_data.ok THEN Ret(s2, "Cbor")
    ELSE
    LET s3 == IF is_get
              THEN call(s2, "handle_cache_get",
                        [type_id |-> get_data.v.name_and_type_id.type_id,
                         name |-> get_data.v.name_and_type_id.name,
                         from_authority |-> from_authority(header),
                         from |-> from(header)])
              ELSE s2
    IN
    IF is_get /\ s.env.cache_get.tag = "Reply"
    THEN LET r == construct_get_data_response_msg(s3, header, get_data.v,
                                                  s.env.cache_get.data)
         IN IF r.s.panicked THEN r.s
            ELSE forward_and_handle(
                     send_swarm_or_parallel(r.s, header_send_to(header).dest,
                                            encode(r.msg)),
                     message, serialised_message)
    ELSE forward_and_handle(s3, message, serialised_message)

\* a dispatcher that keeps the fingerprint only of a message whose
\* processing ended well
message_received_keeps_on_success(s, peer_id, serialised_message) ==
    LET processed ==
            LET m == decode(serialised_message, "RoutingMessage") IN
            IF ~m.ok THEN Ret(s, "Cbor")
            ELSE
            LET message == m.v
                header == message.message_header
                body == message.serialised_body
            IN
            IF already_seen(s, header)
            THEN Ret(at(s, "filtered"), "FilterCheckFailed")
            ELSE
            LET s1 == add_to_filter(s, header)
                is_response == message.message_type = "GetDataResponse"
                get_data_response == decode(body, "GetDataResponse")
            IN
            IF is_response /\ ~get_data_response.ok THEN Ret(s1, "Cbor")
            ELSE
            LET s2 == IF is_response /\ get_data_response.v.data.ok
                         /\ Len(get_data_response.v.data.v) # 0
                      THEN call(s1, "handle_cache_put",
                                [from_authority |-> from_authority(header),
                                 from |-> from(header),
                                 data |-> get_data_response.v.data.v])
                      ELSE s1
                is_get == message.message_type = "GetData"
                get_data == decode(body, "GetData")
            IN
            IF is_get /\ ~get_data.ok THEN Ret(s2, "Cbor")
            ELSE
            LET s3 == IF is_get
                      THEN call(s2, "handle_cache_get",
                                [type_id |-> get_data.v.name_and_type_id.type_id,
                                 name |-> get_data.v.name_and_type_id.name,
                                 from_authority |-> from_authority(header),
                                 from |-> from(header)])
                      ELSE s2
            IN
            IF is_get /\ s.env.cache_get.tag = "Reply"
            THEN LET r == construct_get_data_response_msg(s3, header, get_data.v,
                                                          s.env.cache_get.data)
                 IN IF r.s.panicked THEN r.s
                    ELSE Ret(send_swarm_or_parallel(r.s, header_send_to(header).dest,
                                                    encode(r.msg)), "Ok")
            ELSE forward_and_handle(s3, message, serialised_message)
    IN IF processed.result \in {"Ok", "FilterCheckFailed"} THEN processed
       ELSE [processed EXCEPT !.filter = s.filter]

message_received(s, peer_id, serialised_message) ==
    LET m == decode(serialised_message, "RoutingMessage") IN
    IF ~m.ok THEN Ret(s, "Cbor")
    ELSE
    LET message == m.v
        header == message.message_header
        body == message.serialised_body
    IN
    IF already_seen(s, header)
    THEN Ret(at(s, "filtered"), "FilterCheckFailed")
    ELSE
    LET s1 == add_to_filter(s, header)
        is_response == message.message_type = "GetDataResponse"
        get_data_response == decode(body, "GetDataResponse")
    IN
    IF is_response /\ ~get_data_response.ok THEN Ret(s1, "Cbor")
    ELSE
    LET s2 == IF is_response /\ get_data_response.v.data.ok
                 /\ Len(get_data_response.v.data.v) # 0
              THEN call(s1, "handle_cache_put",
                        [from_authority |-> from_authority(header),
                         from |-> from(header),
                         data |-> get_data_response.v.data.v])
              ELSE s1
        is_get == message.message_type = "GetData"
        get_data == decode(body, "GetData")
    IN
    IF is_get /\ ~get_data.ok THEN Ret(s2, "Cbor")
    ELSE
    LET s3 == IF is_get
              THEN call(s2, "handle_cache_get",
                        [type_id |-> get_data.v.name_and_type_id.type_id,
                         name |-> get_data.v.name_and_type_id.name,
                         from_authority |-> from_authority(header),
                         from |-> from(header)])
              ELSE s2
    IN
    IF is_get /\ s.env.cache_get.tag = "Reply"
    THEN LET r == construct_get_data_response_msg(s3, header, get_data.v,
                                                  s.env.cache_get.data)
         IN IF r.s.panicked THEN r.s
            ELSE Ret(send_swarm_or_parallel(r.s, header_send_to(header).dest,
                                            encode(r.msg)), "Ok")
    ELSE forward_and_handle(s3, message, serialised_message)

(***************************************************************************)
(* The event dispatch loop: run() with the event try_recv yields.          *)
(***************************************************************************)
NewMessage(endpoint, bytes) ==
    [type |-> "NewMessage", endpoint |-> endpoint, bytes |-> bytes]
NewConnection(endpoint) ==
    [type |-> "NewConnection", endpoint |-> endpoint, bytes |-> <<>>]
LostConnection(endpoint) ==
    [type |-> "LostConnection", endpoint |-> endpoint, bytes |-> <<>>]

\* the results of message_received and bootstrap_message_received are
\* dropped by run(); they stay in the field result for the record
\* a dispatch loop that drops the peer whose frame ended in an error
run_event_drops_on_error(s, event) ==
    CASE event.type = "NewMessage" ->
           IF contains_key(s.all_connections_0, event.endpoint)
           THEN LET peer_id == s.all_connections_0[event.endpoint]
                    r == message_received(s, peer_id, event.bytes)
                IN IF r.result = "Ok" THEN r
                   ELSE Ret(handle_lost_connection(r, event.endpoint),
                            r.result)
           ELSE bootstrap_message_received(s, event.endpoint, event.bytes)
      [] event.type = "NewConnection" ->
           Ret(handle_connect(s, event.endpoint), "Ok")
      [] event.type = "LostConnection" ->
           Ret(handle_lost_connection(s, event.endpoint), "Ok")

\* the loop handing the dispatcher what is not of the identity exchange,
\* whatever endpoint it comes from
run_event_any_endpoint(s, event) ==
    CASE event.type = "NewMessage" ->
           IF contains_key(s.all_connections_0, event.endpoint)
           THEN LET peer_id == s.all_connections_0[event.endpoint]
                IN message_received(s, peer_id, event.bytes)
           ELSE IF decode(event.bytes, "RoutingMessage").ok
                   /\ event.bytes[1].message_type
                          \notin {"BootstrapIdRequest", "BootstrapIdResponse"}
           THEN message_received(s, s.own_id, event.bytes)
           ELSE bootstrap_message_received(s, event.endpoint, event.bytes)
      [] event.type = "NewConnection" ->
           Ret(handle_connect(s, event.endpoint), "Ok")
      [] event.type = "LostConnection" ->
           Ret(handle_lost_connection(s, event.endpoint), "Ok")

run_event(s, event) ==
    CASE event.type = "NewMessage" ->
           IF contains_key(s.all_connections_0, event.endpoint)
           THEN LET peer_id == s.all_connections_0[event.endpoint]
                IN message_received(s, peer_id, event.bytes)
           ELSE bootstrap_message_received(s, event.endpoint, event.bytes)
      [] event.type = "NewConnection" ->
           Ret(handle_connect(s, event.endpoint), "Ok")
      [] event.type = "LostConnection" ->
           Ret(handle_lost_connection(s, event.endpoint), "Ok")

run(s, event, env) == run_event(Begin(s, "run", event, env), event)


(***************************************************************************)
(* Time: the oldest entry of the filter, or of the identity cache, passes  *)
(* its expiry duration (both are evaluated lazily, on the next access).    *)
(***************************************************************************)
filter_expire(s) == [s EXCEPT !.filter = Tail(@)]
cache_expire(s) == [s EXCEPT !.public_pmid_cache = Tail(@)]

(***************************************************************************)
(* The state: nodes[i] is node i, queue[i] the events its connection       *)
(* manager has queued for it; hist[i] is what the history of node i has to *)
(* remember beyond its last operation.                                     *)
(***************************************************************************)
\* the names of nodes 1 and 2, and the endpoints they listen on
NodeNames == <<1, 2>>
Listener(i) == 100 + i
\* the seed of next_message_id: any u32; the runs of the node
\* specifications draw at most MaxIds ids and start far from the wrap
Seed == <<0, 5>>
\* the message id of the frames peers send
PeerMessageId == <<0, 7>>

Saturate(n) == IF n < 2 THEN n + 1 ELSE 2

HistInit ==
    [handled |-> EmptyMap, accepted |-> {}, cache_expired |-> FALSE,
     find_groups |-> 0, lost_peer_in_table |-> FALSE, live |-> EmptyMap,
     delivery |-> "none", repeat |-> "no", cache_changed |-> FALSE,
     handshake |-> FALSE, responded |-> None]

\* the fingerprint of the message a run() of the node was given
InputFingerprint(s) ==
    get_filter(decode(s.input.bytes, "RoutingMessage").v.message_header)

Passed(s, step) == \E k \in DOMAIN s.steps : s.steps[k] = step

IsFindGroup(frame) ==
    /\ decode(frame.bytes, "RoutingMessage").ok
    /\ frame.bytes[1].message_type = "FindGroup"

\* the operation took the node from before to s: it was a LostConnection
\* for the endpoint of a registered peer that was in the routing table
LostPeerInTable(before, s) ==
    /\ s.op = "run"
    /\ s.input.type = "LostConnection"
    /\ contains_key(before.all_connections_0, s.input.endpoint)
    /\ has_node(before.routing_table,
                before.all_connections_0[s.input.endpoint])

\* the operation that took the node from before to s gave message_received
\* a frame that decodes
Dispatched(before, s) ==
    /\ s.op = "run"
    /\ s.input.type = "NewMessage"
    /\ contains_key(before.all_connections_0, s.input.endpoint)
    /\ decode(s.input.bytes, "RoutingMessage").ok

\* "fresh" when the fingerprint of that frame was not in the filter then,
\* "known" when it was
Delivery(before, s) ==
    IF ~Dispatched(before, s) THEN "none"
    ELSE IF filter_check(before.filter, InputFingerprint(s)) THEN "known"
    ELSE "fresh"

\* when the operation dispatched the frame that the operation before it
\* had dispatched fresh: the result of that first dispatch; else "no"
Repeat(h, before, s) ==
    IF /\ Dispatched(before, s)
       /\ h.delivery = "fresh"
       /\ before.input.bytes = s.input.bytes
    THEN before.result
    ELSE "no"

\* the operation that took the node from before to s gave
\* bootstrap_message_received a frame of the given type whose body decodes
BootstrapFrameTaken(before, s, type) ==
    /\ s.op = "run"
    /\ s.input.type = "NewMessage"
    /\ ~contains_key(before.all_connections_0, s.input.endpoint)
    /\ decode(s.input.bytes, "RoutingMessage").ok
    /\ s.input.bytes[1].message_type = type
    /\ decode(s.input.bytes[1].serialised_body, type).ok

\* that operation completed a bootstrap handshake: a BootstrapIdResponse
\* from the dialled endpoint was processed, or the sender of a
\* BootstrapIdRequest was adopted as the bootstrap peer
ResponseProcessed(before, s) ==
    /\ BootstrapFrameTaken(before, s, "BootstrapIdResponse")
    /\ before.bootstrap_endpoint = Some(s.input.endpoint)
    /\ is_none(before.bootstrap_node_id)

HandshakeCompleted(before, s) ==
    \/ ResponseProcessed(before, s)
    \/ /\ BootstrapFrameTaken(before, s, "BootstrapIdRequest")
       /\ is_none(before.bootstrap_node_id)

\* the history after the operation that took the node from before to s
HistNext(h, before, s) ==
    [h EXCEPT
       !.handshake = @ \/ HandshakeCompleted(before, s),
       \* the endpoint whose BootstrapIdResponse was processed, for as long
       \* as the connection to it lasts
       !.responded = IF ResponseProcessed(before, s)
                     THEN Some(s.input.endpoint)
                     ELSE IF /\ s.op = "run"
                             /\ s.input.type = "LostConnection"
                             /\ @ = Some(s.input.endpoint)
                     THEN None
                     ELSE @,
       !.handled = IF Passed(s, "dispatch")
                   THEN LET fp == InputFingerprint(s)
                        IN insert(@, fp, IF fp \in DOMAIN @
                                         THEN Saturate(@[fp]) ELSE 1)
                   ELSE @,
       !.accepted = IF s.op = "handle_put_public_pmid" /\ s.result = "Ok"
                    THEN @ \cup {decode(s.input.body, "PutPublicPmid")
                                     .v.public_pmid.name}
                    ELSE IF Passed(s, "dispatch") /\ s.result = "Ok"
                            /\ s.input.bytes[1].message_type = "PutPublicPmid"
                    THEN @ \cup {decode(s.input.bytes[1].serialised_body,
                                        "PutPublicPmid").v.public_pmid.name}
                    ELSE @,
       !.cache_changed = s.public_pmid_cache # before.public_pmid_cache,
       !.find_groups = IF \E k \in DOMAIN s.sent : IsFindGroup(s.sent[k])
                       THEN Saturate(@) ELSE @,
       !.lost_peer_in_table = LostPeerInTable(before, s),
       !.live = IF Passed(s, "dispatch")
                THEN LET fp == InputFingerprint(s)
                     IN insert(@, fp, IF fp \in DOMAIN @
                                      THEN Saturate(@[fp]) ELSE 1)
                ELSE @,
       !.delivery = Delivery(before, s),
       !.repeat = Repeat(h, before, s)]

\* node i ends an operation as s
Step(i, s) ==
    /\ ~nodes[i].panicked
    /\ s.ids_used <= MaxIds
    /\ nodes' = [nodes EXCEPT ![i] = s]
    /\ hist' = [hist EXCEPT ![i] = HistNext(@, nodes[i], s)]

(***************************************************************************)
(* Frames a peer can send.                                                 *)
(***************************************************************************)
PeerHeader(sender, dest) ==
    MessageHeader(PeerMessageId, DestinationAddress(dest, None),
                  SourceAddress(sender, None, None), "ManagedNode")

BootstrapIdRequestFrame(n) ==
    encode(RoutingMessage("BootstrapIdRequest", PeerHeader(n, ZeroName),
                          BootstrapIdRequest(n)))

BootstrapIdResponseFrame(n) ==
    encode(RoutingMessage("BootstrapIdResponse", PeerHeader(n, ZeroName),
                          BootstrapIdResponse(n)))

ConnectRequestFrame(n, to, endpoint) ==
    encode(RoutingMessage("ConnectRequest", PeerHeader(n, to),
                          ConnectRequest(<<endpoint>>, <<>>, n, to,
                                         PublicPmid(n))))

\* bytes that do not decode
Garbage == <<>>

(***************************************************************************)
(* Spec: one node and its connection manager; the peers are the            *)
(* environment.  The frames are those of the identity exchange and bytes   *)
(* that do not decode.                                                     *)
(***************************************************************************)
Peers == Names \ {NodeNames[1]}

BootFrames ==
    {BootstrapIdRequestFrame(n) : n \in Peers}
    \cup {BootstrapIdResponseFrame(n) : n \in Peers}
    \cup {Garbage}

Init ==
    /\ \E debug \in BOOLEAN :
           nodes = [i \in {1} |->
                        new(NodeNames[i], <<Listener(i)>>, Seed, debug)]
    /\ queue = [i \in {1} |-> <<>>]
    /\ hist = [i \in {1} |-> HistInit]

EnvNewMessage ==
    /\ \E e \in Endpoints, bytes \in BootFrames :
           Step(1, run(nodes[1], NewMessage(e, bytes), QuietEnv))
    /\ UNCHANGED queue

EnvNewConnection ==
    /\ \E e \in Endpoints :
           Step(1, run(nodes[1], NewConnection(e), QuietEnv))
    /\ UNCHANGED queue

EnvLostConnection ==
    /\ \E e \in Endpoints :
           Step(1, run(nodes[1], LostConnection(e), QuietEnv))
    /\ UNCHANGED queue

CallBootstrap ==
    /\ \E r \in {None} \cup {Some(e) : e \in Endpoints} :
           Step(1, bootstrap(Begin(nodes[1], "bootstrap", r, QuietEnv), r))
    /\ UNCHANGED queue

FilterExpires ==
    /\ nodes[1].filter # <<>>
    /\ ~nodes[1].panicked
    /\ nodes' = [nodes EXCEPT
                   ![1] = Ret(filter_expire(Begin(@, "expire", <<>>,
                                                  QuietEnv)), "Ok")]
    /\ hist' = [hist EXCEPT ![1].lost_peer_in_table = FALSE,
                            ![1].repeat = "no",
                            ![1].delivery = "none",
                            ![1].cache_changed = FALSE,
                            ![1].live = remove(@, Head(nodes[1].filter))]
    /\ UNCHANGED queue

Next ==
    \/ EnvNewMessage
    \/ EnvNewConnection
    \/ EnvLostConnection
    \/ CallBootstrap
    \/ FilterExpires

Spec == Init /\ [][Next]_vars

(***************************************************************************)
(* SpecConn: one node and peers that keep to the protocol: the first frame *)
(* on a connection is the identity request, a registered peer asks to      *)
(* connect; connections come up and are lost.                              *)
(***************************************************************************)
\* the peers that ask to connect
ConnPeers == {0, 2}

PeerRegisters ==
    /\ \E e \in Endpoints \ DOMAIN nodes[1].all_connections_0 :
           \E n \in ConnPeers :
               Step(1, run(nodes[1],
                           NewMessage(e, BootstrapIdRequestFrame(n)),
                           QuietEnv))
    /\ UNCHANGED queue

PeerAsksToConnect ==
    /\ \E e \in DOMAIN nodes[1].all_connections_0, listens \in Endpoints :
           LET n == nodes[1].all_connections_0[e]
           IN Step(1, run(nodes[1],
                          NewMessage(e, ConnectRequestFrame(
                                            n, NodeNames[1], listens)),
                          QuietEnv))
    /\ UNCHANGED queue

NextConn ==
    \/ PeerRegisters
    \/ PeerAsksToConnect
    \/ EnvNewConnection
    \/ EnvLostConnection

SpecConn == Init /\ [][NextConn]_vars

(***************************************************************************)
(* The registry.                                                           *)
(***************************************************************************)
\* endpoint e maps to name n exactly when name n maps to endpoint e
Inverses(s) ==
    /\ \A e \in DOMAIN s.all_connections_0 :
           /\ contains_key(s.all_connections_1, s.all_connections_0[e])
           /\ s.all_connections_1[s.all_connections_0[e]] = e
    /\ \A n \in DOMAIN s.all_connections_1 :
           /\ contains_key(s.all_connections_0, s.all_connections_1[n])
           /\ s.all_connections_0[s.all_connections_1[n]] = n

\* C1: in every reachable state of a node the endpoint->name map and the
\* name->endpoint map of all_connections are exact inverses of each other,
\* also after two unregistered endpoints sent a BootstrapIdRequest with
\* the same sender_id.  (The code breaks this: TLC finds a violation.)
C1_registry_bijection == Inverses(nodes[1])

\* what an operation leaves of the node apart from the record of the
\* operation itself
Core(s) ==
    [own_id |-> s.own_id, all_connections_0 |-> s.all_connections_0,
     all_connections_1 |-> s.all_connections_1,
     routing_table |-> s.routing_table,
     next_message_id |-> s.next_message_id,
     bootstrap_endpoint |-> s.bootstrap_endpoint,
     bootstrap_node_id |-> s.bootstrap_node_id, filter |-> s.filter,
     public_pmid_cache |-> s.public_pmid_cache, panicked |-> s.panicked]

\* the step is a run() of node 1 that processes LostConnection
LostStep ==
    /\ nodes'[1].op = "run"
    /\ nodes'[1].input.type = "LostConnection"

\* C2: after run() processes LostConnection(e), e is absent from
\* endpoint->name, no name->endpoint entry maps to e, and the peer the
\* registry held for e is no longer in the routing table; a LostConnection
\* for an endpoint that is not in the registry changes no node state.
C2_lost_connection ==
    [][LostStep =>
         LET e == nodes'[1].input.endpoint
             before == nodes[1]
             after == nodes'[1]
         IN /\ ~contains_key(after.all_connections_0, e)
            /\ \A n \in DOMAIN after.all_connections_1 :
                   after.all_connections_1[n] # e
            /\ contains_key(before.all_connections_0, e) =>
                   /\ ~has_node(after.routing_table,
                                before.all_connections_0[e])
                   /\ ~contains_key(after.all_connections_1,
                                    before.all_connections_0[e])
            /\ ~contains_key(before.all_connections_0, e) =>
                   Core(after) = Core(before)]_vars

\* a LostConnection took a peer that was in the routing table out of the
\* registry and the table
C2_witness ==
    LET s == nodes[1] IN
    /\ s.op = "run"
    /\ s.input.type = "LostConnection"
    /\ hist[1].lost_peer_in_table
    /\ ~contains_key(s.all_connections_0, s.input.endpoint)

(***************************************************************************)
(* SpecId: the message id counter, from seeds on both sides of the wrap of *)
(* a u32, in a build with and in one without overflow checks.              *)
(***************************************************************************)
\* the seeds are at most SeedSpan away from 0 or from 2^32 - 1, or from
\* the carry between the two halves of the counter
SeedSpan == 4

Seeds ==
    {<<hi, lo>> : hi \in {0, Limb - 1},
                  lo \in (0 .. SeedSpan) \cup ((Limb - 1 - SeedSpan) .. (Limb - 1))}

InitId ==
    /\ \E seed \in Seeds, debug \in BOOLEAN :
           nodes = [i \in {1} |->
                        new(NodeNames[i], <<Listener(i)>>, seed, debug)]
    /\ queue = [i \in {1} |-> <<>>]
    /\ hist = [i \in {1} |-> HistInit]

\* a caller takes the next message id; input records the counter before
CallGetNextMessageId ==
    /\ LET s == Begin(nodes[1], "get_next_message_id",
                      nodes[1].next_message_id, QuietEnv)
           r == get_next_message_id(s)
       IN Step(1, Ret(r.s, r.id))
    /\ UNCHANGED queue

NextId == CallGetNextMessageId

SpecId == InitId /\ [][NextId]_vars

\* C5: every call of get_next_message_id returns the current counter and
\* advances it by exactly one modulo 2^32, also from 2^32 - 1, without
\* failing.  (A build with overflow checks panics there: TLC finds a
\* violation.)
C5_monotone_message_id ==
    LET s == nodes[1] IN
    s.op = "get_next_message_id" =>
        /\ ~s.panicked
        /\ s.result = s.input
        /\ s.next_message_id = U32Succ(s.input)

(***************************************************************************)
(* SpecMsg: a node two peers have joined receives routed messages from     *)
(* them, again and again; the entries of its filter expire.                *)
(***************************************************************************)
SomeData == <<1>>

PutDataFrame(n, dest) ==
    encode(RoutingMessage("PutData", PeerHeader(n, dest),
                          PutData(dest, SomeData)))

GetDataFrame(n, dest) ==
    encode(RoutingMessage("GetData", PeerHeader(n, dest),
                          GetData(SourceAddress(n, None, None),
                                  NameAndTypeId(dest, 0))))

PutPublicPmidFrame(n, name, dest) ==
    encode(RoutingMessage("PutPublicPmid", PeerHeader(n, dest),
                          PutPublicPmid(PublicPmid(name))))

RECURSIVE RunAll(_, _)
RunAll(s, events) ==
    IF events = <<>> THEN s
    ELSE RunAll(run(s, Head(events), QuietEnv), Tail(events))

\* the node some time after the operation that left it as s: the entries
\* of the filter have expired; the ids are counted from here
Settled(s) ==
    [Begin(s, "new", <<>>, QuietEnv) EXCEPT
       !.result = "Ok", !.filter = <<>>, !.ids_used = 0]

\* node i after peer 2 registered on endpoint 1 and peer 0 on endpoint 2,
\* and peer 2 (and, if both, peer 0 as well) connected
Joined(i, debug, both) ==
    LET own == NodeNames[i]
        events ==
            <<NewMessage(1, BootstrapIdRequestFrame(2)),
              NewMessage(2, BootstrapIdRequestFrame(0)),
              NewMessage(1, ConnectRequestFrame(2, own, 1)),
              NewConnection(1)>>
            \o (IF both
                THEN <<NewMessage(2, ConnectRequestFrame(0, own, 2)),
                       NewConnection(2)>>
                ELSE <<>>)
    IN Settled(RunAll(new(own, <<Listener(i)>>, Seed, debug), events))

\* PutData from peer 2 for this node and for peer 2; GetData and a
\* PutPublicPmid from peer 0 with one fingerprint; bytes that do not decode
MsgFrames ==
    {PutDataFrame(2, d) : d \in {1, 2}}
    \cup {GetDataFrame(0, 1), PutPublicPmidFrame(0, 0, 1), Garbage}

\* what the interface answers: handle_cache_get only to GetData, the type
\* handler's callback only when the cache did not answer
MsgEnvs(bytes) ==
    IF bytes = Garbage \/ bytes[1].message_type = "PutPublicPmid"
    THEN {QuietEnv}
    ELSE {Env({}, Abort, h, 1) :
              h \in {Abort, Reply(SomeData), SendOn(<<0>>)}}
         \cup (IF bytes[1].message_type = "GetData"
               THEN {Env({}, Reply(SomeData), Abort, 1)} ELSE {})

\* the builds differ in no operation of this specification: the build with
\* the checks is taken
InitMsg ==
    /\ \E both \in BOOLEAN :
           nodes = [i \in {1} |-> Joined(i, TRUE, both)]
    /\ queue = [i \in {1} |-> <<>>]
    /\ hist = [i \in {1} |-> HistInit]

MsgDeliver ==
    /\ \E e \in Endpoints, bytes \in MsgFrames :
           \E env \in MsgEnvs(bytes) :
               Step(1, run(nodes[1], NewMessage(e, bytes), env))
    /\ UNCHANGED queue

NextMsg ==
    \/ MsgDeliver
    \/ FilterExpires

SpecMsg == InitMsg /\ [][NextMsg]_vars

\* C3 as stated: when the same serialised message is dispatched twice in
\* succession, the first dispatch returns Ok and the second returns
\* FilterCheckFailed.  (The first dispatch can return an error of its
\* processing: TLC finds a violation.)
C3_first_ok_second_filtered ==
    hist[1].repeat # "no" =>
        /\ hist[1].repeat = "Ok"
        /\ nodes[1].result = "FilterCheckFailed"

\* C3, amended: when a message whose fingerprint is not in the filter is
\* dispatched twice in succession, the first dispatch returns the result of
\* its processing, Ok or an error other than FilterCheckFailed, and the
\* second returns FilterCheckFailed and goes no further than the filter.
C3_second_filtered ==
    hist[1].repeat # "no" =>
        /\ hist[1].repeat \in {"Ok", "BadAuthority", "Interface", "Cbor",
                               "AlreadyConnected", "Other", "Io",
                               "UnknownMessageType"}
        /\ nodes[1].result = "FilterCheckFailed"
        /\ nodes[1].steps = <<"filtered">>

\* a message whose first dispatch ended with the error of the interface is
\* filtered by the second
C3_witness ==
    /\ hist[1].repeat = "Interface"
    /\ nodes[1].result = "FilterCheckFailed"

\* C4 as stated: for any sequence of deliveries, the type handler is
\* invoked at most once for a fingerprint.  (After the entry of the filter
\* has expired a redelivery is handled again: TLC finds a violation.)
C4_handled_at_most_once ==
    \A fp \in DOMAIN hist[1].handled : hist[1].handled[fp] <= 1

\* C4, amended: while a fingerprint stays in the filter its type handler is
\* invoked at most once, and every delivery whose fingerprint is in the
\* filter is dropped before the cache callbacks, forwarding and dispatch.
C4_handled_once_while_filtered ==
    /\ \A fp \in DOMAIN hist[1].live : hist[1].live[fp] <= 1
    /\ hist[1].delivery = "known" =>
           /\ nodes[1].result = "FilterCheckFailed"
           /\ nodes[1].calls = <<>>
           /\ nodes[1].sent = <<>>
           /\ nodes[1].steps = <<"filtered">>

\* a delivery is dropped by the filter after the handler has run twice for
\* its fingerprint, once before and once after an expiry
C4_witness ==
    /\ hist[1].delivery = "known"
    /\ InputFingerprint(nodes[1]) \in DOMAIN hist[1].handled
    /\ hist[1].handled[InputFingerprint(nodes[1])] = 2
    /\ nodes[1].result = "FilterCheckFailed"

(***************************************************************************)
(* SpecAuth: the authority resolver, called with every element and header  *)
(* over the names, on nodes with every routing table over the peers.       *)
(***************************************************************************)
\* the routing table after add_node of the names of the set S
RECURSIVE TableOf(_, _)
TableOf(our_id, S) ==
    IF S = {} THEN RoutingTableNew
    ELSE LET n == CHOOSE x \in S : TRUE
         IN add_node(TableOf(our_id, S \ {n}), our_id,
                     NodeInfo(PublicPmid(n), <<1>>, Some(1))).rt

WithTable(s, S) == [s EXCEPT !.routing_table = TableOf(s.own_id, S)]

Groups == {None} \cup {Some(n) : n \in Names}

Headers ==
    {MessageHeader(PeerMessageId, DestinationAddress(dest, None),
                   SourceAddress(sender, group, None), "ManagedNode") :
         dest \in Names, sender \in Names, group \in Groups}

InitAuth ==
    /\ \E S \in SUBSET Peers :
           nodes = [i \in {1} |->
                        WithTable(new(NodeNames[i], <<Listener(i)>>, Seed,
                                      TRUE), S)]
    /\ queue = [i \in {1} |-> <<>>]
    /\ hist = [i \in {1} |-> HistInit]

CallOurAuthority ==
    /\ \E element \in Names, header \in Headers :
           LET s == Begin(nodes[1], "our_authority",
                          [element |-> element, header |-> header], QuietEnv)
           IN Step(1, Ret(s, our_authority(s, element, header)))
    /\ UNCHANGED queue

NextAuth == CallOurAuthority

SpecAuth == InitAuth /\ [][NextAuth]_vars

\* x is within the close-group range of node s
InG(s, x) == address_in_our_close_group_range(s.routing_table, s.own_id, x)

\* the rows of the resolver's table for element E and header H, in order;
\* each is <<condition, authority>>
Rows(s, E, H) ==
    <<<<H.source.from_group = None /\ InG(s, H.source.from_node)
            /\ H.destination.dest # E, "ClientManager">>,
      <<InG(s, E) /\ H.destination.dest = E, "NaeManager">>,
      <<H.source.from_group # None /\ InG(s, H.destination.dest)
            /\ H.destination.dest # s.own_id, "NodeManager">>,
      <<H.source.from_group # None /\ InG(s, H.source.from_group[1])
            /\ H.destination.dest = s.own_id, "ManagedNode">>>>

\* the rows whose condition holds
Matching(s, E, H) ==
    {r \in DOMAIN Rows(s, E, H) : Rows(s, E, H)[r][1]}

FirstMatch(s, E, H) ==
    IF Matching(s, E, H) = {} THEN "Unknown"
    ELSE Rows(s, E, H)[CHOOSE r \in Matching(s, E, H) :
                           \A q \in Matching(s, E, H) : r <= q][2]

\* C6: for every header H, element E and close group G, our_authority
\* returns the authority of the first row that matches, in the order
\* ClientManager, NaeManager, NodeManager, ManagedNode, and Unknown when
\* none does.
C6_first_matching_row ==
    LET s == nodes[1] IN
    s.op = "our_authority" =>
        s.result = FirstMatch(s, s.input.element, s.input.header)

\* the rows of NaeManager and NodeManager both match a call, and the node
\* answers NaeManager
C6_witness ==
    LET s == nodes[1] IN
    /\ s.op = "our_authority"
    /\ {2, 3} \subseteq Matching(s, s.input.element, s.input.header)
    /\ s.result = "NaeManager"

\* C7 as stated: the resolver returns one of the authorities and no input
\* satisfies the conditions of two different rows.  (The rows of NaeManager
\* and NodeManager, and those of NaeManager and ManagedNode, can hold
\* together: TLC finds a violation.)
C7_rows_exclusive ==
    LET s == nodes[1] IN
    s.op = "our_authority" =>
        /\ s.result \in Authorities
        /\ Cardinality(Matching(s, s.input.element, s.input.header)) <= 1

\* C7, amended: the resolver returns one of the authorities; the row of
\* ClientManager excludes every other row and the rows of NodeManager and
\* ManagedNode exclude each other, but the row of NaeManager can hold
\* together with that of NodeManager or of ManagedNode, and the resolver
\* then answers NaeManager.
C7_rows_exclusive_but_nae ==
    LET s == nodes[1]
        M == Matching(s, s.input.element, s.input.header)
    IN s.op = "our_authority" =>
           /\ s.result \in Authorities
           /\ Cardinality(M) <= 2
           /\ Cardinality(M) = 2 =>
                  /\ M \in {{2, 3}, {2, 4}}
                  /\ s.result = "NaeManager"

\* the rows of NaeManager and ManagedNode both match a call
C7_witness ==
    LET s == nodes[1] IN
    /\ s.op = "our_authority"
    /\ Matching(s, s.input.element, s.input.header) = {2, 4}
    /\ s.result = "NaeManager"

(***************************************************************************)
(* SpecPmid: PutPublicPmid messages handed to the handler one after the    *)
(* other, on a node with an empty or a full routing table, within the      *)
(* expiry time of the identity cache.                                      *)
(***************************************************************************)
PmidGroups == {None, Some(NodeNames[1])}

PmidHeaders ==
    {MessageHeader(PeerMessageId, DestinationAddress(dest, None),
                   SourceAddress(sender, group, None), "ManagedNode") :
         dest \in Names, sender \in Names, group \in PmidGroups}

InitPmid ==
    /\ \E S \in {{}, Peers} :
           nodes = [i \in {1} |->
                        WithTable(new(NodeNames[i], <<Listener(i)>>, Seed,
                                      TRUE), S)]
    /\ queue = [i \in {1} |-> <<>>]
    /\ hist = [i \in {1} |-> HistInit]

CallHandlePutPublicPmid ==
    /\ \E name \in Names, header \in PmidHeaders :
           LET body == encode(PutPublicPmid(PublicPmid(name)))
               s == Begin(nodes[1], "handle_put_public_pmid",
                          [header |-> header, body |-> body], QuietEnv)
           IN Step(1, handle_put_public_pmid(s, header, body))
    /\ UNCHANGED queue

NextPmid == CallHandlePutPublicPmid

SpecPmid == InitPmid /\ [][NextPmid]_vars

\* the name a PutPublicPmid body advertises
AdvertisedName(body) == decode(body, "PutPublicPmid").v.public_pmid.name

\* the names in the identity cache
CachedNames(s) ==
    {s.public_pmid_cache[k].key : k \in DOMAIN s.public_pmid_cache}

\* C8 as stated: handle_put_public_pmid succeeds if and only if the
\* advertised name lies within the local close-group range, and returns
\* BadAuthority otherwise.  (A name in range under a header addressed
\* elsewhere is refused: TLC finds a violation.)
C8_ok_iff_name_in_range ==
    LET s == nodes[1] IN
    s.op = "handle_put_public_pmid" =>
        IF InG(s, AdvertisedName(s.input.body))
        THEN s.result = "Ok" ELSE s.result = "BadAuthority"

\* C8, amended: handle_put_public_pmid succeeds if and only if the
\* advertised name lies within the local close-group range and is the
\* destination of the header; in every other case it returns BadAuthority.
C8_ok_iff_name_in_range_and_destination ==
    LET s == nodes[1] IN
    s.op = "handle_put_public_pmid" =>
        IF /\ InG(s, AdvertisedName(s.input.body))
           /\ s.input.header.destination.dest = AdvertisedName(s.input.body)
        THEN s.result = "Ok" ELSE s.result = "BadAuthority"

\* a name in range, advertised under a header addressed elsewhere, is refused
C8_witness ==
    LET s == nodes[1] IN
    /\ s.op = "handle_put_public_pmid"
    /\ InG(s, AdvertisedName(s.input.body))
    /\ s.input.header.destination.dest # AdvertisedName(s.input.body)
    /\ s.result = "BadAuthority"

\* C9: after any sequence of PutPublicPmid messages the identity cache
\* holds exactly the names of the accepted ones, a refused message leaves
\* the cache as it was, every cached name is within the close-group range,
\* and the size of the cache is the number of distinct accepted names.
C9_cache_is_accepted_names ==
    LET s == nodes[1] IN
    /\ CachedNames(s) = hist[1].accepted
    /\ cache_len(s.public_pmid_cache) = Cardinality(hist[1].accepted)
    /\ \A name \in CachedNames(s) : InG(s, name)
    /\ (s.op = "handle_put_public_pmid" /\ s.result = "BadAuthority")
           => ~hist[1].cache_changed

\* on a full table, a message is refused after two names were accepted, one
\* of them twice
C9_witness ==
    LET s == nodes[1] IN
    /\ size(s.routing_table) >= GroupSize
    /\ s.op = "handle_put_public_pmid"
    /\ s.result = "BadAuthority"
    /\ ~InG(s, AdvertisedName(s.input.body))
    /\ cache_len(s.public_pmid_cache) = 2
    /\ s.public_pmid_cache[1].key = NodeNames[1]

(***************************************************************************)
(* SpecNet: two nodes.  Node 1 (A) listens, node 2 (B) bootstraps to A's   *)
(* endpoint; each node sees the other under the other's listening          *)
(* endpoint, and the connection between them delivers the frames in the    *)
(* order they were sent.  Each node keeps taking the events queued for it. *)
(***************************************************************************)
A == 1
B == 2

\* the events at node j for the frames node i handed to the connection
\* manager during the operation that ended as s
RECURSIVE Frames(_, _, _)
Frames(sent, i, j) ==
    IF sent = <<>> THEN <<>>
    ELSE IF Head(sent).endpoint = Listener(j) /\ Head(sent).ok
    THEN <<NewMessage(Listener(i), Head(sent).bytes)>>
             \o Frames(Tail(sent), i, j)
    ELSE Frames(Tail(sent), i, j)

\* the counters the nodes start from: a small one, one before a carry
\* between the halves, and the last two before 2^32
NetSeeds == {Seed, <<0, Limb - 1>>, <<Limb - 1, Limb - 2>>, U32Max}

InitNet ==
    /\ \E debug \in BOOLEAN, seed_a \in NetSeeds, seed_b \in NetSeeds :
           nodes = [i \in {A, B} |->
                        new(NodeNames[i], <<Listener(i)>>,
                            IF i = A THEN seed_a ELSE seed_b, debug)]
    /\ queue = [i \in {A, B} |-> <<>>]
    /\ hist = [i \in {A, B} |-> HistInit]

\* B calls bootstrap with A's endpoint: the connection is made, A learns of
\* it, and what B sent is on its way to A
BBootstraps ==
    /\ nodes[B].op = "new"
    /\ \E s \in {bootstrap(Begin(nodes[B], "bootstrap",
                                  Some(Listener(A)), QuietEnv),
                            Some(Listener(A)))} :
          /\ Step(B, s)
          /\ queue' = [queue EXCEPT
                         ![A] = @ \o <<NewConnection(Listener(B))>>
                                  \o Frames(s.sent, B, A)]

\* node i takes the next event of its queue
Deliver(i, j) ==
    /\ \E s \in {run(nodes[i], Head(queue[i]), QuietEnv)} :
          /\ nodes' = [nodes EXCEPT ![i] = s]
          /\ hist' = [hist EXCEPT ![i] = HistNext(@, nodes[i], s)]
          /\ queue' = [queue EXCEPT ![i] = Tail(@),
                                    ![j] = @ \o Frames(s.sent, i, j)]

\* node i is running, has an event to take and message ids left to draw
Ready(i) ==
    /\ queue[i] # <<>>
    /\ ~nodes[i].panicked
    /\ nodes[i].ids_used < MaxIds

ARuns ==
    /\ Ready(A)
    /\ Deliver(A, B)

BRuns ==
    /\ Ready(B)
    /\ Deliver(B, A)

NextNet ==
    \/ BBootstraps
    \/ ARuns
    \/ BRuns

\* each node keeps taking events: weak fairness of ARuns and of BRuns, with
\* Ready(i), the condition under which node i can take one, written out
SpecNet ==
    /\ InitNet
    /\ [][NextNet]_vars
    /\ WF_vars(BBootstraps)
    /\ ([]<>~Ready(A) \/ []<><<ARuns>>_vars)
    /\ ([]<>~Ready(B) \/ []<><<BRuns>>_vars)

\* node i has node j, under j's endpoint, in its connection registry, and
\* j's name as its bootstrap_node_id
Knows(i, j) ==
    /\ get(nodes[i].all_connections_0, Listener(j)) = Some(NodeNames[j])
    /\ get(nodes[i].all_connections_1, NodeNames[j]) = Some(Listener(j))
    /\ nodes[i].bootstrap_node_id = Some(NodeNames[j])

Bootstrapped ==
    /\ Knows(A, B)
    /\ Knows(B, A)
    /\ hist[B].find_groups = 1

\* the FindGroup frames of the last operation of node i
FindGroupsSent(i) ==
    {k \in DOMAIN nodes[i].sent : IsFindGroup(nodes[i].sent[k])}

\* the last operation of B sent one FindGroup, to A's endpoint, whose
\* target and destination are B's own name
FindGroupThroughA ==
    /\ Cardinality(FindGroupsSent(B)) = 1
    /\ \A k \in FindGroupsSent(B) :
           LET frame == nodes[B].sent[k]
               message == decode(frame.bytes, "RoutingMessage").v
           IN /\ frame.endpoint = Listener(A)
              /\ message.message_header.destination.dest = NodeNames[B]
              /\ decode(message.serialised_body, "FindGroup").v.target_id
                     = NodeNames[B]

\* a node has stopped running
Stopped == nodes[A].panicked \/ nodes[B].panicked

\* C10: when A listens and B calls bootstrap with A's endpoint, and both
\* nodes keep running and frames are delivered, then eventually each node
\* has the other in its connection registry and as its bootstrap_node_id,
\* and B has sent through A one FindGroup whose target and destination are
\* B's own name; from then on this stays so and B sends no second FindGroup.
C10_two_node_bootstrap ==
    /\ <>(Stopped \/ (Bootstrapped /\ FindGroupThroughA))
    /\ <>[](Stopped \/ Bootstrapped)

\* both nodes run, know each other, and B's FindGroup has arrived at A and
\* was answered
C10_witness ==
    /\ ~Stopped
    /\ Bootstrapped
    /\ hist[A].handled # EmptyMap
    /\ queue[A] = <<>>

(***************************************************************************)
(* SpecJoin: the two nodes of SpecNet, each taking the events queued for   *)
(* it for as long as it runs, with no limit on the message ids drawn.      *)
(***************************************************************************)
\* node i is running and has an event to take
Running(i) ==
    /\ queue[i] # <<>>
    /\ ~nodes[i].panicked

AJoins ==
    /\ Running(A)
    /\ Deliver(A, B)

BJoins ==
    /\ Running(B)
    /\ Deliver(B, A)

NextJoin ==
    \/ BBootstraps
    \/ AJoins
    \/ BJoins

\* weak fairness of AJoins and of BJoins, with Running(i), the condition
\* under which node i can take an event, written out
SpecJoin ==
    /\ InitNet
    /\ [][NextJoin]_vars
    /\ WF_vars(BBootstraps)
    /\ ([]<>~Running(A) \/ []<><<AJoins>>_vars)
    /\ ([]<>~Running(B) \/ []<><<BJoins>>_vars)

\* node i has node j, and nothing else, in its routing table
OnlyInTable(i, j) ==
    /\ size(nodes[i].routing_table) = 1
    /\ has_node(nodes[i].routing_table, NodeNames[j])

Joined2 ==
    /\ OnlyInTable(A, B)
    /\ OnlyInTable(B, A)

\* C11: in a network of two nodes where B bootstraps to A and both nodes
\* keep calling run(), the chain from BootstrapIdRequest to ConnectResponse
\* eventually leaves each node with the other as the one entry of its
\* routing table, and it stays so.
C11_two_node_join == <>[](Stopped \/ Joined2)

\* both nodes run, each has the other in its table, nothing is left to take
C11_witness ==
    /\ ~Stopped
    /\ Joined2
    /\ queue[A] = <<>>
    /\ queue[B] = <<>>

(***************************************************************************)
(* The bootstrap peer.                                                     *)
(***************************************************************************)
\* C12: in every state after a bootstrap handshake has completed on the
\* node, bootstrap_endpoint is set if and only if bootstrap_node_id is set,
\* also after later LostConnection events, BootstrapIdRequests and calls of
\* bootstrap.
C12_bootstrap_endpoint_iff_node_id ==
    LET s == nodes[1] IN
    hist[1].handshake =>
        (is_some(s.bootstrap_endpoint) <=> is_some(s.bootstrap_node_id))

\* after a handshake, the connection to the bootstrap endpoint was lost
C12_witness ==
    LET s == nodes[1] IN
    /\ hist[1].handshake
    /\ s.op = "run"
    /\ s.input.type = "LostConnection"
    /\ Some(s.input.endpoint) = s.bootstrap_endpoint
    /\ is_some(s.bootstrap_node_id)
    /\ ~s.panicked

\* the step is a call of bootstrap on node 1
BootstrapStep == nodes'[1].op = "bootstrap"

\* the frame is a BootstrapIdRequest carrying the name
IsBootstrapIdRequestOf(frame, name) ==
    /\ decode(frame.bytes, "RoutingMessage").ok
    /\ frame.bytes[1].message_type = "BootstrapIdRequest"
    /\ decode(frame.bytes[1].serialised_body, "BootstrapIdRequest").ok
    /\ frame.bytes[1].serialised_body[1].sender_id = name

\* C13: when the connection manager cannot establish a bootstrap
\* connection, bootstrap returns FailedToBootstrap, changes nothing of the
\* node and sends nothing; when it can, bootstrap_endpoint is the
\* established endpoint and exactly one BootstrapIdRequest carrying the
\* local name is sent to it.
C13_bootstrap_call ==
    [][BootstrapStep =>
         LET before == nodes[1]
             after == nodes'[1]
             bootstrapped_to == after.input
         IN IF is_none(bootstrapped_to)
            THEN /\ after.result = "FailedToBootstrap"
                 /\ Core(after) = Core(before)
                 /\ after.sent = <<>>
            ELSE /\ after.result = "Ok"
                 /\ after.bootstrap_endpoint = bootstrapped_to
                 /\ Len(after.sent) = 1
                 /\ after.sent[1].endpoint = unwrap(bootstrapped_to)
                 /\ IsBootstrapIdRequestOf(after.sent[1], after.own_id)]_vars

\* a failed call of bootstrap on a node that had dialled an endpoint before
C13_witness ==
    LET s == nodes[1] IN
    /\ s.op = "bootstrap"
    /\ s.result = "FailedToBootstrap"
    /\ is_some(s.bootstrap_endpoint)
    /\ is_none(s.bootstrap_node_id)

(***************************************************************************)
(* SpecBoot: a node that dials a bootstrap endpoint while peers answer,    *)
(* register, ask to connect, connect and get lost.  The node starts fresh, *)
(* or some time after it bootstrapped to peer 2 on endpoint 1 and peer 2   *)
(* connected.                                                              *)
(***************************************************************************)
RECURSIVE HistAll(_, _, _)
HistAll(h, s, events) ==
    IF events = <<>> THEN h
    ELSE LET s1 == run(s, Head(events), QuietEnv)
         IN HistAll(HistNext(h, s, s1), s1, Tail(events))

BootEvents ==
    <<NewMessage(1, BootstrapIdResponseFrame(2)),
      NewMessage(1, ConnectRequestFrame(2, NodeNames[1], 1)),
      NewConnection(1)>>

\* node 1 after it called bootstrap, got endpoint 1, and took BootEvents
Bootstrapped1(debug) ==
    LET fresh == new(NodeNames[1], <<Listener(1)>>, Seed, debug)
    IN RunAll(bootstrap(Begin(fresh, "bootstrap", Some(1), QuietEnv),
                        Some(1)),
              BootEvents)

BootstrappedHist1(debug) ==
    LET fresh == new(NodeNames[1], <<Listener(1)>>, Seed, debug)
        s0 == bootstrap(Begin(fresh, "bootstrap", Some(1), QuietEnv), Some(1))
        h == HistAll(HistNext(HistInit, fresh, s0), s0, BootEvents)
    IN [HistInit EXCEPT !.handshake = h.handshake,
                        !.responded = h.responded]

InitBoot ==
    /\ \E debug \in BOOLEAN, joined \in BOOLEAN :
           /\ nodes = [i \in {1} |->
                           IF joined THEN Settled(Bootstrapped1(debug))
                           ELSE new(NodeNames[i], <<Listener(i)>>, Seed,
                                    debug)]
           /\ hist = [i \in {1} |->
                          IF joined THEN BootstrappedHist1(debug)
                          ELSE HistInit]
    /\ queue = [i \in {1} |-> <<>>]

PeerResponds ==
    /\ \E e \in Endpoints, n \in ConnPeers :
           Step(1, run(nodes[1], NewMessage(e, BootstrapIdResponseFrame(n)),
                       QuietEnv))
    /\ UNCHANGED queue

NextBoot ==
    \/ CallBootstrap
    \/ PeerResponds
    \/ PeerRegisters
    \/ PeerAsksToConnect
    \/ EnvNewConnection
    \/ EnvLostConnection

SpecBoot == InitBoot /\ [][NextBoot]_vars

\* the step is a run() of node 1 on a BootstrapIdResponse from the
\* endpoint whose first BootstrapIdResponse it has processed
SecondResponseStep ==
    /\ nodes'[1].op = "run"
    /\ nodes'[1].input.type = "NewMessage"
    /\ hist[1].responded = Some(nodes'[1].input.endpoint)
    /\ decode(nodes'[1].input.bytes, "RoutingMessage").ok
    /\ nodes'[1].input.bytes[1].message_type = "BootstrapIdResponse"

\* C14: after the first BootstrapIdResponse from the dialled endpoint has
\* been processed, processing another BootstrapIdResponse from that
\* endpoint leaves the registry, bootstrap_endpoint, bootstrap_node_id and
\* the routing table unchanged and sends no message.
C14_second_response_ignored ==
    [][SecondResponseStep =>
         LET before == nodes[1]
             after == nodes'[1]
         IN /\ after.all_connections_0 = before.all_connections_0
            /\ after.all_connections_1 = before.all_connections_1
            /\ after.bootstrap_endpoint = before.bootstrap_endpoint
            /\ after.bootstrap_node_id = before.bootstrap_node_id
            /\ after.routing_table = before.routing_table
            /\ after.sent = <<>>]_vars

\* the step is a run() of node 1 on a BootstrapIdRequest from an endpoint
\* that is not in the registry
RequestStep ==
    /\ nodes'[1].op = "run"
    /\ BootstrapFrameTaken(nodes[1], nodes'[1], "BootstrapIdRequest")

\* the frame is a BootstrapIdResponse carrying the name
IsBootstrapIdResponseOf(frame, name) ==
    /\ decode(frame.bytes, "RoutingMessage").ok
    /\ frame.bytes[1].message_type = "BootstrapIdResponse"
    /\ decode(frame.bytes[1].serialised_body, "BootstrapIdResponse").ok
    /\ frame.bytes[1].serialised_body[1].sender_id = name

\* C15: on a BootstrapIdRequest from an endpoint not in the registry, the
\* sender becomes the bootstrap peer if bootstrap_node_id is empty, and the
\* bootstrap peer is left as it is otherwise; in both cases the sender is
\* registered in both directions and exactly one BootstrapIdResponse
\* carrying the local name is sent to that endpoint.
C15_bootstrap_id_request ==
    [][RequestStep =>
         LET before == nodes[1]
             after == nodes'[1]
             e == after.input.endpoint
             sender_id == after.input.bytes[1].serialised_body[1].sender_id
         IN /\ IF is_none(before.bootstrap_node_id)
               THEN /\ after.bootstrap_node_id = Some(sender_id)
                    /\ after.bootstrap_endpoint = Some(e)
               ELSE /\ after.bootstrap_node_id = before.bootstrap_node_id
                    /\ after.bootstrap_endpoint = before.bootstrap_endpoint
            /\ get(after.all_connections_0, e) = Some(sender_id)
            /\ get(after.all_connections_1, sender_id) = Some(e)
            /\ Len(after.sent) = 1
            /\ after.sent[1].endpoint = e
            /\ IsBootstrapIdResponseOf(after.sent[1], after.own_id)]_vars

\* a second peer registered and did not become the bootstrap peer
C15_witness ==
    LET s == nodes[1] IN
    /\ s.op = "run"
    /\ s.input.type = "NewMessage"
    /\ Len(s.sent) = 1
    /\ IsBootstrapIdResponseOf(s.sent[1], s.own_id)
    /\ is_some(s.bootstrap_endpoint)
    /\ s.bootstrap_endpoint # Some(s.input.endpoint)
    /\ get(s.all_connections_0, s.input.endpoint) # s.bootstrap_node_id

(***************************************************************************)
(* SpecGet: GetData messages from registered peers, with every answer of   *)
(* the interface's cache, on a node whose peers are registered only, or    *)
(* one of them connected, or both.                                         *)
(***************************************************************************)
\* node i after peer 2 registered on endpoint 1 and peer 0 on endpoint 2
Registered(i, debug) ==
    Settled(RunAll(new(NodeNames[i], <<Listener(i)>>, Seed, debug),
                   <<NewMessage(1, BootstrapIdRequestFrame(2)),
                     NewMessage(2, BootstrapIdRequestFrame(0))>>))

GetFrames == {GetDataFrame(2, 1), GetDataFrame(0, 2)}

\* the answers of handle_cache_get and of handle_get
GetEnvs ==
    {Env({}, Reply(SomeData), Abort, 1), Env({}, Abort, Abort, 1),
     Env({}, Response(<<>>), Reply(SomeData), 1),
     Env({}, SendOn(<<0>>), Abort, 1)}

InitGet ==
    /\ \E connected \in 0..2 :
           nodes = [i \in {1} |->
                        IF connected = 0 THEN Registered(i, TRUE)
                        ELSE Joined(i, TRUE, connected = 2)]
    /\ queue = [i \in {1} |-> <<>>]
    /\ hist = [i \in {1} |-> HistInit]

GetDeliver ==
    /\ \E e \in Endpoints, bytes \in GetFrames, env \in GetEnvs :
           Step(1, run(nodes[1], NewMessage(e, bytes), env))
    /\ UNCHANGED queue

NextGet ==
    \/ GetDeliver
    \/ FilterExpires

SpecGet == InitGet /\ [][NextGet]_vars

\* the last operation asked the cache for the data of a first-seen GetData
CacheAsked(s) ==
    /\ s.op = "run"
    /\ Passed(s, "handle_cache_get")

CacheHit(s) == CacheAsked(s) /\ s.env.cache_get.tag = "Reply"

\* the frame is a GetDataResponse carrying the data
IsGetDataResponseWith(frame, data) ==
    /\ decode(frame.bytes, "RoutingMessage").ok
    /\ frame.bytes[1].message_type = "GetDataResponse"
    /\ decode(frame.bytes[1].serialised_body, "GetDataResponse").ok
    /\ frame.bytes[1].serialised_body[1].data = [ok |-> TRUE, v |-> data]

\* the endpoints of the connected routing-table targets selected for the
\* address, as send_swarm_or_parallel finds them
TargetEndpoints(s, address) ==
    LET targets == get_connected_target(s, address)
    IN {s.all_connections_1[targets[k].id] :
            k \in {j \in DOMAIN targets :
                       contains_key(s.all_connections_1, targets[j].id)}}

\* what holds of a cache hit whatever the number of frames: the frames are
\* GetDataResponses with the data, the GetData is not forwarded, handle_get
\* is not called; without a hit the processing goes on with the forwarding
CacheHitShortCircuits(s) ==
    /\ CacheHit(s) =>
           /\ \A k \in DOMAIN s.sent :
                  IsGetDataResponseWith(s.sent[k], s.env.cache_get.data)
           /\ ~Passed(s, "forward")
           /\ ~Passed(s, "handle_get")
           /\ s.result = "Ok"
    /\ (CacheAsked(s) /\ ~CacheHit(s)) => Passed(s, "forward")

\* C16 as stated: on a cache hit the node emits exactly one GetDataResponse
\* carrying the data, does not forward the GetData and does not call
\* handle_get; otherwise the processing falls through to the forwarding.
\* (With no connected target the response is not emitted at all, with a
\* swarm it is emitted once per member: TLC finds a violation.)
C16_cache_hit_one_response ==
    LET s == nodes[1] IN
    /\ CacheHitShortCircuits(s)
    /\ CacheHit(s) => Len(s.sent) = 1

\* C16, amended: on a cache hit the node builds exactly one GetDataResponse
\* carrying the data and hands a copy to each connected routing-table
\* target selected for the response's destination.dest, which may be none
\* or several; it does not forward the GetData and does not call
\* handle_get; otherwise the processing falls through to the forwarding.
C16_cache_hit_one_response_per_target ==
    LET s == nodes[1] IN
    /\ CacheHitShortCircuits(s)
    /\ CacheHit(s) =>
           /\ \A k, l \in DOMAIN s.sent : s.sent[k].bytes = s.sent[l].bytes
           /\ \A k, l \in DOMAIN s.sent :
                  s.sent[k].endpoint = s.sent[l].endpoint => k = l
           /\ {s.sent[k].endpoint : k \in DOMAIN s.sent}
                  = TargetEndpoints(
                        s, header_send_to(s.input.bytes[1].message_header)
                               .dest)
           /\ \A k \in DOMAIN s.sent :
                  s.sent[k].bytes[1].message_header.destination
                      = header_send_to(s.input.bytes[1].message_header)

\* a cache hit on a node with no connected peer: no response leaves
C16_witness ==
    LET s == nodes[1] IN
    /\ CacheHit(s)
    /\ s.result = "Ok"
    /\ s.sent = <<>>
    /\ s.calls # <<>>

(***************************************************************************)
(* SpecFwd: messages from registered peers for every destination, with    *)
(* and without a reply_to, on a node whose routing table is empty, holds   *)
(* one entry, or is full.                                                  *)
(***************************************************************************)
\* a PutData for this node to pass on to the client named in reply_to
RelayFrame(n, dest, client) ==
    encode(RoutingMessage("PutData",
               MessageHeader(PeerMessageId,
                             DestinationAddress(dest, Some(client)),
                             SourceAddress(n, None, None), "ManagedNode"),
               PutData(dest, SomeData)))

\* a GetData whose body is not a GetData
MalformedGetDataFrame(n, dest) ==
    encode(RoutingMessage("GetData", PeerHeader(n, dest),
                          PutData(dest, SomeData)))

FwdFrames ==
    {PutDataFrame(2, d) : d \in Names}
    \cup {RelayFrame(2, NodeNames[1], r) : r \in {0, NodeNames[1]}}
    \cup {GetDataFrame(2, 0), MalformedGetDataFrame(2, 2)}

FwdEnvs == {Env({}, Abort, h, 1) : h \in {Abort, Reply(SomeData)}}

InitFwd ==
    /\ \E connected \in 0..2 :
           nodes = [i \in {1} |->
                        IF connected = 0 THEN Registered(i, TRUE)
                        ELSE Joined(i, TRUE, connected = 2)]
    /\ queue = [i \in {1} |-> <<>>]
    /\ hist = [i \in {1} |-> HistInit]

\* peer 2, the sender of the frames, is registered on endpoint 1
FwdDeliver ==
    /\ \E bytes \in FwdFrames, env \in FwdEnvs :
           Step(1, run(nodes[1], NewMessage(1, bytes), env))
    /\ UNCHANGED queue

\* the deliveries of one expiry period of the filter
NextFwd ==
    \/ FwdDeliver

SpecFwd == InitFwd /\ [][NextFwd]_vars

\* the step takes a message from a known peer that is not in the filter and
\* that the cache does not answer
FirstSeenStep ==
    /\ Delivery(nodes[1], nodes'[1]) = "fresh"
    /\ ~CacheHit(nodes'[1])

\* the header of the message the operation took
InputHeader(s) == s.input.bytes[1].message_header

\* the first frames the operation sent are the input, one for each
\* connected target the node had for the input's destination.dest
ForwardedUnchanged(before, s) ==
    LET to == TargetEndpoints(before, InputHeader(s).destination.dest)
        n == Cardinality(to)
    IN /\ Passed(s, "forward")
       /\ Len(s.sent) >= n
       /\ \A k \in 1..n : s.sent[k].bytes = s.input.bytes
       /\ {s.sent[k].endpoint : k \in 1..n} = to

\* the operation passed the place first before the place second
PassedBefore(s, first, second) ==
    \E k, l \in DOMAIN s.steps :
        k < l /\ s.steps[k] = first /\ s.steps[l] = second

\* a GetData or GetDataResponse whose body does not decode as one
MalformedCacheMessage(s) ==
    LET message == s.input.bytes[1]
    IN /\ message.message_type \in {"GetData", "GetDataResponse"}
       /\ ~decode(message.serialised_body, message.message_type).ok

\* a relay response for a client that is not in the registry
RelayFallback(before, s) ==
    LET destination == InputHeader(s).destination
    IN /\ is_some(destination.reply_to)
       /\ destination.dest = before.own_id
       /\ ~contains_key(before.all_connections_1,
                        unwrap(destination.reply_to))

\* C17 as stated: every first-seen message from a known peer that no cache
\* hit short-circuits is forwarded unchanged toward its destination.dest,
\* and whenever destination.dest is within the close-group range the type
\* dispatch also runs for it, after the forwarding.  (A relay response for
\* an unregistered client returns before the dispatch, a GetData whose body
\* does not decode returns before the forwarding: TLC finds a violation.)
C17_forward_and_handle ==
    [][FirstSeenStep =>
         LET before == nodes[1]
             after == nodes'[1]
         IN /\ ForwardedUnchanged(before, after)
            /\ address_in_close_group_range(
                   before, InputHeader(after).destination.dest)
                   => PassedBefore(after, "forward", "dispatch")]_vars

\* C17, amended: every first-seen message from a known peer that no cache
\* hit short-circuits, and whose body decodes when it is a GetData or a
\* GetDataResponse, is forwarded unchanged toward its destination.dest;
\* whenever destination.dest is within the close-group range the type
\* dispatch also runs for it, after the forwarding, unless the message is
\* a relay response (dest is this node, reply_to set) for a client that is
\* not in the registry: that one is sent to one registered endpoint and
\* message_received returns Ok without dispatching.
C17_forward_and_handle_but_relay_fallback ==
    [][FirstSeenStep =>
         LET before == nodes[1]
             after == nodes'[1]
         IN IF MalformedCacheMessage(after)
            THEN /\ after.result = "Cbor"
                 /\ after.sent = <<>>
            ELSE /\ ForwardedUnchanged(before, after)
                 /\ IF RelayFallback(before, after)
                    THEN /\ ~Passed(after, "dispatch")
                         /\ after.result = "Ok"
                         /\ PassedBefore(after, "forward", "relay")
                    ELSE address_in_close_group_range(
                             before, InputHeader(after).destination.dest)
                             => PassedBefore(after, "forward", "dispatch")]_vars

\* a message was forwarded to a connected peer and handled as well
C17_witness ==
    LET s == nodes[1] IN
    /\ hist[1].delivery = "fresh"
    /\ PassedBefore(s, "forward", "dispatch")
    /\ s.calls # <<>>
    /\ s.sent # <<>>
    /\ s.sent[1].bytes = s.input.bytes

\* the entries of the routing table that have fewer than GroupSize entries
\* nearer to the node: its close group
CloseGroupMembers(s) ==
    {x \in s.routing_table :
         Cardinality({y \in s.routing_table :
                          closer_to_target(y.id, x.id, s.own_id)})
             < get_group_size}

\* the address is nearer to the node than the furthest member of its close
\* group, or the routing table holds fewer than GroupSize entries
WithinCloseGroupRange(s, address) ==
    \/ Cardinality(s.routing_table) < get_group_size
    \/ \E member \in CloseGroupMembers(s) :
           closer_to_target(address, member.id, s.own_id)

\* the callbacks of the type handlers, those of the cache apart
HandlerCalls(s) ==
    {k \in DOMAIN s.calls :
         s.calls[k].method \notin {"handle_cache_put", "handle_cache_get"}}

\* the step takes a message from a known peer
MessageStep == Dispatched(nodes[1], nodes'[1])

\* C18: the range test accepts every address while the routing table holds
\* fewer than GroupSize entries and otherwise exactly the addresses nearer
\* to the node than the furthest member of its close group; for a message
\* whose destination.dest is not within that range no type handler runs and
\* no handle_* callback of the type dispatch is invoked, and the message
\* that reaches the gate is forwarded only and message_received returns Ok.
C18_close_group_gate ==
    [][MessageStep =>
         LET before == nodes[1]
             after == nodes'[1]
         IN /\ \A address \in Names :
                   address_in_close_group_range(before, address)
                       = WithinCloseGroupRange(before, address)
            /\ ~WithinCloseGroupRange(
                    before, InputHeader(after).destination.dest)
                   => /\ ~Passed(after, "dispatch")
                      /\ HandlerCalls(after) = {}
                      /\ Passed(after, "forward")
                             => /\ Passed(after, "not_for_us")
                                /\ after.result = "Ok"]_vars

\* the gate stopped a first-seen message that the node had forwarded
C18_witness ==
    LET s == nodes[1] IN
    /\ hist[1].delivery = "fresh"
    /\ Cardinality(s.routing_table) = get_group_size
    /\ ~address_in_close_group_range(s, InputHeader(s).destination.dest)
    /\ Passed(s, "not_for_us")
    /\ s.sent # <<>>
    /\ s.result = "Ok"

(***************************************************************************)
(* SpecApi: the application calls get, put, unauthorised_put and refresh   *)
(* on a node that has bootstrapped, or whose peers are registered only, or *)
(* one of them connected, or both; the connection manager may fail to      *)
(* send.                                                                   *)
(***************************************************************************)
Contents == {Sendable(n, SomeData) : n \in Names}

\* the connection manager sends, or fails for endpoint 1
ApiEnvs == {Env(f, Abort, Abort, 1) : f \in {{}, {1}}}

InitApi ==
    /\ \E state \in 0..3 :
           nodes = [i \in {1} |->
                        CASE state = 0 -> Registered(i, TRUE)
                          [] state = 1 -> Joined(i, TRUE, FALSE)
                          [] state = 2 -> Joined(i, TRUE, TRUE)
                          [] OTHER -> Settled(Bootstrapped1(TRUE))]
    /\ queue = [i \in {1} |-> <<>>]
    /\ hist = [i \in {1} |-> HistInit]

CallGet ==
    /\ \E type_id \in {0, GetKeyTypeId}, name \in Names, env \in ApiEnvs :
           LET input == [type_id |-> type_id, name |-> name]
           IN Step(1, Ret(node_get(Begin(nodes[1], "get", input, env),
                                   type_id, name), "Ok"))
    /\ UNCHANGED queue

CallPut ==
    /\ \E destination \in Names, content \in Contents,
          client_authority \in BOOLEAN, env \in ApiEnvs :
           LET input == [destination |-> destination, content |-> content,
                         client_authority |-> client_authority]
           IN Step(1, Ret(put(Begin(nodes[1], "put", input, env),
                              destination, content, client_authority), "Ok"))
    /\ UNCHANGED queue

CallUnauthorisedPut ==
    /\ \E destination \in Names, content \in Contents, env \in ApiEnvs :
           LET input == [destination |-> destination, content |-> content]
           IN Step(1, Ret(unauthorised_put(
                              Begin(nodes[1], "unauthorised_put", input, env),
                              destination, content), "Ok"))
    /\ UNCHANGED queue

CallRefresh ==
    /\ \E content \in Contents, env \in ApiEnvs :
           LET input == [content |-> content]
           IN Step(1, Ret(refresh(Begin(nodes[1], "refresh", input, env),
                                  content), "Ok"))
    /\ UNCHANGED queue

NextApi ==
    \/ CallGet
    \/ CallPut
    \/ CallUnauthorisedPut
    \/ CallRefresh

SpecApi == InitApi /\ [][NextApi]_vars

\* the step is a call of get, put or unauthorised_put
HeaderStep == nodes'[1].op \in {"get", "put", "unauthorised_put"}

\* the step is a call of the application
ApiStep == nodes'[1].op \in {"get", "put", "unauthorised_put", "refresh"}

\* every frame the operation sent is the one message of this type, with
\* this authority and destination name, with no reply_to and with the id
SentOnly(s, message_type, authority, dest, message_id) ==
    \A k \in DOMAIN s.sent :
        LET message == s.sent[k].bytes[1]
            header == message.message_header
        IN /\ s.sent[k].bytes = s.sent[1].bytes
           /\ message.message_type = message_type
           /\ header.authority = authority
           /\ header.destination = DestinationAddress(dest, None)
           /\ header.message_id = message_id

\* C19: get(type_id, name) emits a GetData with authority Client and
\* destination name; put emits a PutData to its destination with authority
\* Client when client_authority is true and ManagedNode otherwise;
\* unauthorised_put emits an UnauthorisedPut with authority Unknown; each
\* call consumes exactly one message id, the one its message carries, and
\* sets destination.reply_to to none.
C19_outbound_headers ==
    [][HeaderStep =>
         LET before == nodes[1]
             after == nodes'[1]
             input == after.input
             message_id == before.next_message_id
         IN /\ after.next_message_id = U32Succ(message_id)
            /\ after.ids_used = before.ids_used + 1
            /\ CASE after.op = "get" ->
                      SentOnly(after, "GetData", "Client", input.name,
                               message_id)
                 [] after.op = "put" ->
                      SentOnly(after, "PutData",
                               IF input.client_authority
                               THEN "Client" ELSE "ManagedNode",
                               input.destination, message_id)
                 [] OTHER ->
                      SentOnly(after, "UnauthorisedPut", "Unknown",
                               input.destination, message_id)]_vars

\* a put without the client's authority left for a connected peer
C19_witness ==
    LET s == nodes[1] IN
    /\ s.op = "put"
    /\ ~s.input.client_authority
    /\ s.sent # <<>>
    /\ s.sent[1].bytes[1].message_header.authority = "ManagedNode"
    /\ s.ids_used = 1

\* the destination.dest of the header the call builds
ApiDestination(s) ==
    CASE s.op = "get" -> s.input.name
      [] s.op = "refresh" -> s.input.content.name
      [] OTHER -> s.input.destination

\* the operation sent one frame to each of the endpoints, and no other
SentExactlyTo(s, endpoints) ==
    /\ {s.sent[k].endpoint : k \in DOMAIN s.sent} = endpoints
    /\ Len(s.sent) = Cardinality(endpoints)

\* C20 as stated: get, put, unauthorised_put and refresh send their message
\* to exactly the connected routing-table targets selected for
\* header.destination.dest, and report no failure.  (put, unauthorised_put
\* and refresh select the targets for the node's own name: TLC finds a
\* violation.)
C20_sent_toward_destination ==
    [][ApiStep =>
         LET before == nodes[1]
             after == nodes'[1]
         IN /\ after.result = "Ok"
            /\ SentExactlyTo(after,
                   TargetEndpoints(before, ApiDestination(after)))]_vars

\* C20, amended: get sends its message to exactly the connected
\* routing-table targets selected for header.destination.dest; put,
\* unauthorised_put and refresh send theirs to exactly the connected
\* targets selected for the node's own name, its close group, whatever the
\* destination; no call reports a failure, a failed send included.
C20_sent_toward_destination_or_self ==
    [][ApiStep =>
         LET before == nodes[1]
             after == nodes'[1]
             target == IF after.op = "get" THEN ApiDestination(after)
                       ELSE before.own_id
         IN /\ after.result = "Ok"
            /\ SentExactlyTo(after, TargetEndpoints(before, target))
            /\ \A k \in DOMAIN after.sent :
                   after.sent[k].bytes[1].message_header.destination.dest
                       = ApiDestination(after)]_vars

\* a put for a name outside the close-group range went to the whole close
\* group, and one of the sends failed
C20_witness ==
    LET s == nodes[1] IN
    /\ s.op = "put"
    /\ ~address_in_close_group_range(s, s.input.destination)
    /\ Len(s.sent) = 2
    /\ \E k \in DOMAIN s.sent : ~s.sent[k].ok
    /\ s.result = "Ok"

(***************************************************************************)
(* SpecErr: frames whose processing ends in each of the errors, from       *)
(* registered peers and from endpoints whose connection was lost.          *)
(***************************************************************************)
\* a ConnectRequest relayed for the client named in the source's reply_to
RelayedConnectRequestFrame(n, to, endpoint, client) ==
    encode(RoutingMessage("ConnectRequest",
               MessageHeader(PeerMessageId, DestinationAddress(to, None),
                             SourceAddress(n, None, Some(client)),
                             "ManagedNode"),
               ConnectRequest(<<endpoint>>, <<>>, n, to, PublicPmid(n))))

ErrFrames ==
    {PutDataFrame(2, NodeNames[1]), Garbage, BootstrapIdResponseFrame(2),
     ConnectRequestFrame(2, NodeNames[1], 1),
     RelayedConnectRequestFrame(2, NodeNames[1], 1, NodeNames[1]),
     PutPublicPmidFrame(2, 0, NodeNames[1])}

ErrEnvs == {Env({}, Abort, h, 1) : h \in {Abort, Reply(SomeData)}}

InitErr ==
    /\ \E connected \in 0..2 :
           nodes = [i \in {1} |->
                        IF connected = 0 THEN Registered(i, TRUE)
                        ELSE Joined(i, TRUE, connected = 2)]
    /\ queue = [i \in {1} |-> <<>>]
    /\ hist = [i \in {1} |-> HistInit]

\* peer 2, the sender of the frames, is on endpoint 1
ErrDeliver ==
    /\ \E bytes \in ErrFrames, env \in ErrEnvs :
           Step(1, run(nodes[1], NewMessage(1, bytes), env))
    /\ UNCHANGED queue

NextErr ==
    \/ ErrDeliver
    \/ EnvLostConnection
    \/ FilterExpires

SpecErr == InitErr /\ [][NextErr]_vars

\* the variants of RoutingError
RoutingErrors ==
    {"FilterCheckFailed", "Cbor", "UnknownMessageType", "AlreadyConnected",
     "BadAuthority", "Other", "Interface", "Io", "FailedToBootstrap"}

\* the step is a run() on a frame whose processing ended in an error
ErrorStep ==
    /\ nodes'[1].op = "run"
    /\ nodes'[1].input.type = "NewMessage"
    /\ nodes'[1].result \in RoutingErrors

\* C21: whenever the processing of an inbound frame ends in an error,
\* run() returns and the node goes on running; the sending peer, if it was
\* registered, is registered as before, and is in the routing table if it
\* was there.
C21_errors_keep_node_and_peer ==
    [][ErrorStep =>
         LET before == nodes[1]
             after == nodes'[1]
             e == after.input.endpoint
         IN /\ ~after.panicked
            /\ contains_key(before.all_connections_0, e) =>
                   LET peer_id == before.all_connections_0[e]
                   IN /\ get(after.all_connections_0, e) = Some(peer_id)
                      /\ get(after.all_connections_1, peer_id)
                             = get(before.all_connections_1, peer_id)
                      /\ has_node(before.routing_table, peer_id)
                             => has_node(after.routing_table, peer_id)]_vars

\* the frame of a connected peer ended in an interface error, the node
\* took the frame again and filtered it, and the peer is where it was
C21_witness ==
    LET s == nodes[1]
        e == s.input.endpoint
    IN /\ hist[1].repeat = "Interface"
       /\ s.result = "FilterCheckFailed"
       /\ ~s.panicked
       /\ contains_key(s.all_connections_0, e)
       /\ has_node(s.routing_table, s.all_connections_0[e])

(***************************************************************************)
(* Churn.                                                                  *)
(***************************************************************************)
\* the step added an entry to the routing table while handling a
\* ConnectRequest or a ConnectResponse, or dropped one while handling a
\* LostConnection
ChurnStep ==
    LET before == nodes[1]
        after == nodes'[1]
    IN /\ after.op = "run"
       /\ \/ /\ after.input.type = "NewMessage"
             /\ Passed(after, "dispatch")
             /\ after.input.bytes[1].message_type
                    \in {"ConnectRequest", "ConnectResponse"}
             /\ \E n \in after.routing_table : n \notin before.routing_table
          \/ /\ after.input.type = "LostConnection"
             /\ \E n \in before.routing_table : n \notin after.routing_table

\* the names of the node's close group
CloseGroupNames(s) ==
    LET close_group == our_close_group(s.routing_table, s.own_id)
    IN [k \in DOMAIN close_group |-> close_group[k].id]

\* C22: after every routing-table add made while handling a ConnectRequest
\* or a ConnectResponse, and after every drop made while handling a
\* LostConnection, interface.handle_churn is invoked with the updated close
\* group.  (No function of the node calls on_churn: TLC finds a violation.)
C22_churn_notified ==
    [][ChurnStep =>
         \E k \in DOMAIN nodes'[1].calls :
             /\ nodes'[1].calls[k].method = "handle_churn"
             /\ nodes'[1].calls[k].args.close_group
                    = CloseGroupNames(nodes'[1])]_vars

(***************************************************************************)
(* SpecTable: a node whose peer 2 is registered on endpoint 1 takes from   *)
(* it ConnectRequests, peer 2's own and those it passes on for others, and *)
(* FindGroupResponses; connections come up and are lost.                   *)
(***************************************************************************)
\* node i after peer 2 registered on endpoint 1
OnePeer(i, debug) ==
    Settled(RunAll(new(NodeNames[i], <<Listener(i)>>, Seed, debug),
                   <<NewMessage(1, BootstrapIdRequestFrame(2))>>))

FindGroupResponseFrame(n, to, group) ==
    encode(RoutingMessage("FindGroupResponse", PeerHeader(n, to),
                          FindGroupResponse(group)))

\* the ConnectRequest of peer 2, listening on endpoint 1, plain and with
\* reply_to set, and that of peer 0, listening on endpoint 2; a group of
\* strangers, and one with the node itself and peer 2 in it
TableFrames ==
    {ConnectRequestFrame(2, NodeNames[1], 1),
     RelayedConnectRequestFrame(2, NodeNames[1], 1, 2),
     ConnectRequestFrame(0, NodeNames[1], 2),
     FindGroupResponseFrame(2, NodeNames[1], <<PublicPmid(0)>>),
     FindGroupResponseFrame(0, NodeNames[1],
         <<PublicPmid(NodeNames[1]), PublicPmid(2), PublicPmid(0)>>)}

InitTable ==
    /\ nodes = [i \in {1} |-> OnePeer(i, TRUE)]
    /\ queue = [i \in {1} |-> <<>>]
    /\ hist = [i \in {1} |-> HistInit]

TableDeliver ==
    /\ \E bytes \in TableFrames :
           Step(1, run(nodes[1], NewMessage(1, bytes), QuietEnv))
    /\ UNCHANGED queue

NextTable ==
    \/ TableDeliver
    \/ EnvNewConnection
    \/ EnvLostConnection
    \/ FilterExpires

SpecTable == InitTable /\ [][NextTable]_vars

\* the step is a run() on a NewConnection
ConnectionStep ==
    /\ nodes'[1].op = "run"
    /\ nodes'[1].input.type = "NewConnection"

\* C23: every name in the routing table that a NewConnection event has
\* just marked connected has an entry in all_connections, so that
\* swarm-or-parallel can reach it.  (The registry is filled by the identity
\* exchange only, the routing table by ConnectRequests for any requester:
\* TLC finds a violation.)
C23_connected_names_registered ==
    [][ConnectionStep =>
         LET after == nodes'[1]
         IN \A n \in after.routing_table :
                n.connected_endpoint = Some(after.input.endpoint)
                    => contains_key(after.all_connections_1, n.id)]_vars

\* the frames of the operation that are not its input passed on
OwnFrames(s) == SelectSeq(s.sent, LAMBDA frame : frame.bytes # s.input.bytes)

\* the step takes a first-seen ConnectRequest that reaches its handler
\* and whose requester the routing table refuses to add
RefusedRequestStep ==
    LET before == nodes[1]
        after == nodes'[1]
        message == after.input.bytes[1]
        request == message.serialised_body[1]
    IN /\ FirstSeenStep
       /\ message.message_type = "ConnectRequest"
       /\ decode(message.serialised_body, "ConnectRequest").ok
       /\ Passed(after, "dispatch")
       /\ ~add_node(before.routing_table, before.own_id,
                    NodeInfo(request.requester_fob,
                             request.local_endpoints
                             \o request.external_endpoints, None)).added

\* C29: if the routing table refuses to add the requesting peer,
\* handle_connect_request returns AlreadyConnected, asks the connection
\* manager to dial nothing, sends no ConnectResponse on any path, consumes
\* no message id and leaves the routing table and the registry unchanged;
\* the frames sent are those of the opportunistic forwarding of the
\* request, which is not undone.
C29_refused_connect_request ==
    [][RefusedRequestStep =>
         LET before == nodes[1]
             after == nodes'[1]
         IN /\ after.result = "AlreadyConnected"
            /\ after.dialled = <<>>
            /\ \A k \in DOMAIN after.sent :
                   after.sent[k].bytes = after.input.bytes
            /\ ForwardedUnchanged(before, after)
            /\ Len(after.sent)
                   = Cardinality(TargetEndpoints(
                         before, InputHeader(after).destination.dest))
            /\ after.routing_table = before.routing_table
            /\ after.all_connections_0 = before.all_connections_0
            /\ after.all_connections_1 = before.all_connections_1
            /\ after.next_message_id = before.next_message_id]_vars

\* after the filter expired, the ConnectRequest of peer 2, which is in the
\* routing table and connected, was forwarded and refused
C29_witness ==
    LET s == nodes[1] IN
    /\ hist[1].delivery = "fresh"
    /\ s.input.bytes[1].message_type = "ConnectRequest"
    /\ s.result = "AlreadyConnected"
    /\ \E n \in s.routing_table : n.id = 2 /\ is_some(n.connected_endpoint)
    /\ Len(s.sent) = 1
    /\ s.sent[1].bytes = s.input.bytes
    /\ s.dialled = <<>>

\* the step takes a first-seen FindGroupResponse that reaches its handler
GroupResponseStep ==
    LET message == nodes'[1].input.bytes[1]
    IN /\ FirstSeenStep
       /\ message.message_type = "FindGroupResponse"
       /\ decode(message.serialised_body, "FindGroupResponse").ok
       /\ Passed(nodes'[1], "dispatch")

\* the advertised peers of the operation's FindGroupResponse, in its order
Advertised(s) ==
    LET group == s.input.bytes[1].serialised_body[1].group
    IN [k \in DOMAIN group |-> group[k].name]

\* the frames the operation sent that are ConnectRequests to the peer
RequestsTo(s, peer) ==
    SelectSeq(OwnFrames(s),
              LAMBDA frame :
                  /\ frame.bytes[1].message_type = "ConnectRequest"
                  /\ frame.bytes[1].message_header.destination
                         = DestinationAddress(peer, None)
                  /\ frame.bytes[1].serialised_body[1].receiver_id = peer
                  /\ frame.bytes[1].serialised_body[1].requester_id
                         = s.own_id)

\* the peer was asked: its ConnectRequests went once to each connected
\* target of its name and, the bootstrap endpoint being set, once more to
\* the bootstrap peer
Asked(before, s, peer) ==
    LET frames == RequestsTo(s, peer)
        to == TargetEndpoints(before, peer)
        via == IF is_some(before.bootstrap_endpoint)
               THEN {unwrap(before.bootstrap_endpoint)} ELSE {}
    IN /\ frames # <<>>
       /\ {frames[k].endpoint : k \in DOMAIN frames} = to \cup via
       /\ Len(frames) = Cardinality(to) + Cardinality(via)

\* C30: for each peer advertised in a FindGroupResponse a ConnectRequest
\* addressed to that peer is built and sent, via swarm-or-parallel toward
\* the peer and, a bootstrap endpoint being set, via the bootstrap peer, if
\* and only if routing_table.check_node accepts the peer's name; the peers
\* the table does not want cause no send and consume no message id (one id
\* is consumed for each wanted peer, every frame of the handler is a
\* request to a wanted peer), and the routing table is not modified.
C30_find_group_response ==
    [][GroupResponseStep =>
         LET before == nodes[1]
             after == nodes'[1]
             peers == Advertised(after)
             wanted(peer) == check_node(before.routing_table, before.own_id,
                                        peer)
             frames == OwnFrames(after)
         IN /\ \A k \in DOMAIN peers :
                   IF wanted(peers[k]) THEN Asked(before, after, peers[k])
                   ELSE RequestsTo(after, peers[k]) = <<>>
            /\ \A k \in DOMAIN frames :
                   \E j \in DOMAIN peers :
                       /\ wanted(peers[j])
                       /\ RequestsTo(after, peers[j]) # <<>>
                       /\ frames[k] \in
                              {RequestsTo(after, peers[j])[l] :
                                   l \in DOMAIN RequestsTo(after, peers[j])}
            /\ after.ids_used - before.ids_used
                   = Cardinality({k \in DOMAIN peers : wanted(peers[k])})
            /\ after.routing_table = before.routing_table
            /\ after.result = "Ok"]_vars

\* of the advertised group, itself, peer 2 and peer 0, the node asked peer
\* 0 alone: peer 2 is in its routing table
C30_witness ==
    LET s == nodes[1] IN
    /\ hist[1].delivery = "fresh"
    /\ s.input.bytes[1].message_type = "FindGroupResponse"
    /\ Advertised(s) = <<NodeNames[1], 2, 0>>
    /\ \E n \in s.routing_table : n.id = 2
    /\ RequestsTo(s, 0) # <<>>
    /\ RequestsTo(s, 2) = <<>>
    /\ RequestsTo(s, NodeNames[1]) = <<>>
    /\ s.result = "Ok"

(***************************************************************************)
(* SpecHandlers: one expiry period of the filter on a node whose peers are *)
(* registered only, or one of them connected, or both; peer 2 sends a      *)
(* message of each type the application handles, for every destination,    *)
(* and the application answers in every way.                               *)
(***************************************************************************)
Frame(message_type, authority, source, destination, body) ==
    encode(RoutingMessage(message_type,
                          MessageHeader(PeerMessageId, destination, source,
                                        authority),
                          body))

\* the body of a message of the type about the name x
BodyOf(message_type, x) ==
    CASE message_type \in {"PutData", "UnauthorisedPut"} ->
             PutData(x, SomeData)
      [] message_type = "GetData" ->
             GetData(SourceAddress(2, None, None), NameAndTypeId(x, 0))
      [] message_type = "GetDataResponse" ->
             GetDataResponse(NameAndTypeId(x, 0), [ok |-> TRUE, v |-> SomeData])
      [] message_type = "PutDataResponse" ->
             PutDataResponse(x, [ok |-> TRUE, v |-> SomeData])
      [] message_type = "GetKey" -> GetKey(2, x)
      [] OTHER -> Post(x, SomeData)

\* the types whose handler calls the application, and the callback of each
HandledTypes ==
    {"PutData", "UnauthorisedPut", "GetData", "GetDataResponse",
     "PutDataResponse", "GetKey", "Post"}

CallbackOf(message_type) ==
    CASE message_type \in {"PutData", "UnauthorisedPut"} -> "handle_put"
      [] message_type = "GetData" -> "handle_get"
      [] message_type = "GetDataResponse" -> "handle_get_response"
      [] message_type = "PutDataResponse" -> "handle_put_response"
      [] message_type = "GetKey" -> "handle_get_key"
      [] OTHER -> "handle_post"

\* an UnauthorisedPut carries the authority Unknown, the others that of a
\* client
AuthorityOf(message_type) ==
    IF message_type = "UnauthorisedPut" THEN "Unknown" ELSE "Client"

\* for this node, for peer 2, and for this node to pass on to a client that
\* is not registered
HandlerDestinations ==
    {DestinationAddress(NodeNames[1], None), DestinationAddress(2, None),
     DestinationAddress(NodeNames[1], Some(NodeNames[1]))}

\* peer 2 for itself, and peer 2 for its client 0
HandlerSources == {SourceAddress(2, None, None), SourceAddress(2, None, Some(0))}

\* every type to every destination about the destination's name; PutData
\* also from a relayed client and about another name
HandlerFrames ==
    {Frame(type, AuthorityOf(type), SourceAddress(2, None, None), d,
           BodyOf(type, d.dest)) : type \in HandledTypes,
                                   d \in HandlerDestinations}
    \cup {Frame("PutData", authority, src, d, BodyOf("PutData", x)) :
              authority \in {"Client", "NaeManager"},
              src \in HandlerSources, d \in HandlerDestinations,
              x \in {0, NodeNames[1]}}

\* the application replies to a GetKey with a key, to the others with data
HandlerEnvs(bytes) ==
    LET reply == IF bytes[1].message_type = "GetKey"
                 THEN encode(PublicSignKey(0)) ELSE SomeData
    IN {Env({}, Abort, h, 1) : h \in {Abort, Reply(reply), SendOn(<<0>>)}}
       \cup (IF bytes[1].message_type = "GetData"
             THEN {Env({}, Reply(SomeData), Abort, 1)} ELSE {})

InitHandlers ==
    /\ \E connected \in 0..2 :
           nodes = [i \in {1} |->
                        IF connected = 0 THEN Registered(i, TRUE)
                        ELSE Joined(i, TRUE, connected = 2)]
    /\ queue = [i \in {1} |-> <<>>]
    /\ hist = [i \in {1} |-> HistInit]

\* peer 2, the sender of the frames, is registered on endpoint 1
HandlerDeliver ==
    /\ \E bytes \in HandlerFrames :
           \E env \in HandlerEnvs(bytes) :
               Step(1, run(nodes[1], NewMessage(1, bytes), env))
    /\ UNCHANGED queue

NextHandlers ==
    \/ HandlerDeliver

SpecHandlers == InitHandlers /\ [][NextHandlers]_vars

\* the step takes a first-seen, well-formed message of a handled type
\* whose destination.dest is within the close-group range, and the cache
\* does not answer it
HandledStep ==
    LET message == nodes'[1].input.bytes[1]
    IN /\ FirstSeenStep
       /\ message.message_type \in HandledTypes
       /\ decode(message.serialised_body,
                 BodyOf(message.message_type, 0).kind).ok
       /\ address_in_close_group_range(
              nodes[1], message.message_header.destination.dest)

\* the operation invoked the callback of the type of its message once, and
\* no other callback of a type handler
CalledOnce(s) ==
    /\ Cardinality(HandlerCalls(s)) = 1
    /\ \A k \in HandlerCalls(s) :
           s.calls[k].method = CallbackOf(s.input.bytes[1].message_type)

\* C24 as stated: for a first-seen, well-formed message whose
\* destination.dest is within the close-group range (and, for GetData,
\* that the cache does not answer), exactly one type-handler callback is
\* invoked, that of the message's type.  (A relay response for a client
\* that is not registered returns before the dispatch: TLC finds a
\* violation.)
C24_handler_called_once ==
    [][HandledStep => CalledOnce(nodes'[1])]_vars

\* C24, amended: for such a message exactly one type-handler callback is
\* invoked, that of the message's type, unless the message is a relay
\* response (dest is this node, reply_to set) for a client that is not in
\* the registry: for that one no type-handler callback is invoked.
C24_handler_called_once_but_relay_fallback ==
    [][HandledStep =>
         IF RelayFallback(nodes[1], nodes'[1])
         THEN HandlerCalls(nodes'[1]) = {}
         ELSE CalledOnce(nodes'[1])]_vars

\* a GetKey for this node, forwarded, reached handle_get_key once
C24_witness ==
    LET s == nodes[1] IN
    /\ hist[1].delivery = "fresh"
    /\ s.input.bytes[1].message_type = "GetKey"
    /\ Passed(s, "dispatch")
    /\ CalledOnce(s)
    /\ s.calls[1].method = "handle_get_key"

\* the step takes a first-seen message of the type whose body decodes, and
\* the message passes the close-group gate
GatePassedStep(message_type) ==
    LET message == nodes'[1].input.bytes[1]
    IN /\ FirstSeenStep
       /\ message.message_type = message_type
       /\ decode(message.serialised_body, "PutData").ok
       /\ Passed(nodes'[1], "dispatch")

\* the operation invoked handle_put once, and no other type-handler
\* callback, with the from_authority and the payload of its message
PutHandedOver(s, authority) ==
    /\ Cardinality(HandlerCalls(s)) = 1
    /\ \A k \in HandlerCalls(s) :
           /\ s.calls[k].method = "handle_put"
           /\ s.calls[k].args.from_authority = authority
           /\ s.calls[k].args.data = s.input.bytes[1].serialised_body[1].data

PutReplyStep ==
    /\ \/ GatePassedStep("PutData")
       \/ GatePassedStep("UnauthorisedPut")
    /\ nodes'[1].env.handle.tag = "Reply"

\* the name the claim has the reply go toward
ReplyTarget(before, s) ==
    LET header == InputHeader(s)
        element == s.input.bytes[1].serialised_body[1].name
    IN IF our_authority(before, element, header) = "ClientManager"
          /\ is_some(header.source.reply_to)
       THEN unwrap(header.source.reply_to)
       ELSE from(header)

\* the reply to the operation's message: a PutDataResponse about the name
\* of the PutData carrying what the application returned, under the reply
\* header
PutReply(before, s) ==
    LET header == InputHeader(s)
        element == s.input.bytes[1].serialised_body[1].name
    IN encode(RoutingMessage(
                  "PutDataResponse",
                  create_reply(header, before.own_id,
                               our_authority(before, element, header)),
                  PutDataResponse(element,
                                  [ok |-> TRUE, v |-> s.env.handle.data])))

\* every frame of its own the operation sent is the one reply, once to
\* each connected target of the name; create_reply takes no message id
RepliedToward(before, s, name) ==
    LET frames == OwnFrames(s)
        to == TargetEndpoints(before, name)
    IN /\ \A k \in DOMAIN frames : frames[k].bytes = PutReply(before, s)
       /\ {frames[k].endpoint : k \in DOMAIN frames} = to
       /\ Len(frames) = Cardinality(to)
       /\ s.next_message_id = before.next_message_id
       /\ s.result = "Ok"

\* C28: when handle_put returns Reply, one PutDataResponse is built with
\* create_reply and sent via swarm-or-parallel toward the header's
\* reply_to client name if our_authority is ClientManager and reply_to is
\* set, and toward header.from() in every other case.
C28_put_reply_target ==
    [][PutReplyStep =>
         RepliedToward(nodes[1], nodes'[1], ReplyTarget(nodes[1], nodes'[1]))]_vars

\* this node, ClientManager for a PutData peer 2 relayed for its client 0,
\* sent the one reply to each connected target of the client's name
C28_witness ==
    LET s == nodes[1]
        header == InputHeader(s)
        frames == OwnFrames(s)
    IN /\ hist[1].delivery = "fresh"
       /\ s.input.bytes[1].message_type = "PutData"
       /\ Passed(s, "dispatch")
       /\ s.env.handle.tag = "Reply"
       /\ header.source.reply_to = Some(0)
       /\ Len(s.calls) = 1
       /\ s.calls[1].args.our_authority = "ClientManager"
       /\ frames # <<>>
       /\ {frames[k].endpoint : k \in DOMAIN frames} = TargetEndpoints(s, 0)
       /\ \A k \in DOMAIN frames :
              /\ frames[k].bytes[1].message_type = "PutDataResponse"
              /\ frames[k].bytes[1].message_header.destination
                     = DestinationAddress(2, Some(0))

(***************************************************************************)
(* SpecDispatch: a node that bootstraps, or not, and takes from both       *)
(* endpoints the frames of the identity exchange, messages of other types  *)
(* and bytes that do not decode, while endpoints register and are lost.    *)
(***************************************************************************)
DispatchFrames ==
    {BootstrapIdRequestFrame(2), BootstrapIdResponseFrame(2), Garbage,
     PutDataFrame(2, NodeNames[1]), ConnectRequestFrame(2, NodeNames[1], 1)}

InitDispatch ==
    /\ nodes = [i \in {1} |-> new(NodeNames[i], <<Listener(i)>>, Seed, TRUE)]
    /\ queue = [i \in {1} |-> <<>>]
    /\ hist = [i \in {1} |-> HistInit]

DispatchDeliver ==
    /\ \E e \in Endpoints, bytes \in DispatchFrames :
           Step(1, run(nodes[1], NewMessage(e, bytes), QuietEnv))
    /\ UNCHANGED queue

NextDispatch ==
    \/ DispatchDeliver
    \/ CallBootstrap
    \/ EnvLostConnection
    \/ FilterExpires

SpecDispatch == InitDispatch /\ [][NextDispatch]_vars

\* the step is a run() on a NewMessage
NewMessageStep ==
    /\ nodes'[1].op = "run"
    /\ nodes'[1].input.type = "NewMessage"

\* the frame of the operation is a RoutingMessage of one of the types
FrameOfType(s, types) ==
    /\ decode(s.input.bytes, "RoutingMessage").ok
    /\ s.input.bytes[1].message_type \in types

\* the dispatcher processed the frame: bytes that do not decode end in the
\* decoding error, a fingerprint in the filter in FilterCheckFailed, any
\* other frame enters the filter; the identity exchange is not run
ProcessedByDispatcher(before, s) ==
    /\ IF ~decode(s.input.bytes, "RoutingMessage").ok
       THEN s.result = "Cbor" /\ Core(s) = Core(before)
       ELSE IF filter_check(before.filter, InputFingerprint(s))
       THEN s.result = "FilterCheckFailed" /\ Core(s) = Core(before)
       ELSE /\ Passed(s, "filter_add")
            /\ filter_check(s.filter, InputFingerprint(s))
    /\ s.all_connections_0 = before.all_connections_0
    /\ s.all_connections_1 = before.all_connections_1
    /\ s.bootstrap_node_id = before.bootstrap_node_id
    /\ s.bootstrap_endpoint = before.bootstrap_endpoint

\* the operation changed nothing and sent nothing
NoEffect(before, s) ==
    /\ Core(s) = Core(before)
    /\ s.sent = <<>>
    /\ s.dialled = <<>>
    /\ s.calls = <<>>

\* C27: a frame from an endpoint that is in the connection registry is
\* processed by the dispatcher whatever its type, the frames of the
\* identity exchange included; a frame from an endpoint that is not in the
\* registry is processed only as a bootstrap-phase frame: unless it is a
\* BootstrapIdRequest or a BootstrapIdResponse it changes no state and
\* sends nothing, and the filter does not record it.
C27_dispatch_by_registry ==
    [][NewMessageStep =>
         LET before == nodes[1]
             after == nodes'[1]
         IN IF contains_key(before.all_connections_0, after.input.endpoint)
            THEN ProcessedByDispatcher(before, after)
            ELSE /\ ~Passed(after, "filter_add")
                 /\ ~FrameOfType(after, {"BootstrapIdRequest",
                                         "BootstrapIdResponse"})
                        => NoEffect(before, after)]_vars

\* a ConnectRequest from an endpoint the node lost before left the node as
\* it was, although the same peer is registered on the other endpoint
C27_witness ==
    LET s == nodes[1] IN
    /\ s.op = "run"
    /\ s.input.type = "NewMessage"
    /\ FrameOfType(s, {"ConnectRequest"})
    /\ ~contains_key(s.all_connections_0, s.input.endpoint)
    /\ DOMAIN s.all_connections_0 # {}
    /\ s.routing_table = {}
    /\ s.sent = <<>>
    /\ s.result = "Ok"

(***************************************************************************)
(* SpecLoop: three nodes, every pair of them linked or not, so that the    *)
(* topologies are the triangle, the lines and the broken ones.  Linked     *)
(* nodes have each other in the registry and, connected, in the routing    *)
(* table.  One node puts one message; each node keeps taking the frames    *)
(* queued for it, within one expiry period of its filter.                  *)
(***************************************************************************)
LoopNodes == 1..3
LoopNames == <<1, 2, 0>>
Links == {{1, 2}, {2, 3}, {1, 3}}

\* the events that make node j a connected peer of a node named own
LinkEvents(own, j) ==
    <<NewMessage(Listener(j), BootstrapIdRequestFrame(LoopNames[j])),
      NewMessage(Listener(j),
                 ConnectRequestFrame(LoopNames[j], own, Listener(j))),
      NewConnection(Listener(j))>>

RECURSIVE LinkAll(_, _, _)
LinkAll(i, links, j) ==
    IF j > Len(LoopNames) THEN <<>>
    ELSE (IF {i, j} \in links THEN LinkEvents(LoopNames[i], j) ELSE <<>>)
             \o LinkAll(i, links, j + 1)

\* node i some time after its links came up
LoopNode(i, links) ==
    Settled(RunAll(new(LoopNames[i], <<Listener(i)>>, Seed, TRUE),
                   LinkAll(i, links, 1)))

InitLoop ==
    /\ \E links \in SUBSET Links :
           nodes = [i \in LoopNodes |-> LoopNode(i, links)]
    /\ queue = [i \in LoopNodes |-> <<>>]
    /\ hist = [i \in LoopNodes |-> HistInit]

\* what node i handed to the connection manager is on its way
Routed(sent, i) ==
    [j \in LoopNodes |->
         IF j = i THEN Tail(queue[i]) ELSE queue[j] \o Frames(sent, i, j)]

\* the one message: node 1 puts data toward a destination
Inject ==
    /\ \A i \in LoopNodes : nodes[i].op = "new"
    /\ \E destination \in Names :
           LET content == Sendable(destination, SomeData)
               input == [destination |-> destination, content |-> content,
                         client_authority |-> FALSE]
               s == Ret(put(Begin(nodes[1], "put", input, QuietEnv),
                            destination, content, FALSE), "Ok")
           IN /\ Step(1, s)
              /\ queue' = [j \in LoopNodes |->
                               IF j = 1 THEN queue[j]
                               ELSE queue[j] \o Frames(s.sent, 1, j)]

LoopReady(i) ==
    /\ queue[i] # <<>>
    /\ ~nodes[i].panicked

\* node i takes the next frame of its queue
LoopRuns(i) ==
    /\ LoopReady(i)
    /\ LET s == run(nodes[i], Head(queue[i]), QuietEnv)
       IN /\ Step(i, s)
          /\ queue' = Routed(s.sent, i)

NextLoop ==
    \/ Inject
    \/ \E i \in LoopNodes : LoopRuns(i)

\* each node keeps taking frames: weak fairness of its LoopRuns, with
\* LoopReady(i), the condition under which it can take one, written out
SpecLoop ==
    /\ InitLoop
    /\ [][NextLoop]_vars
    /\ \A i \in LoopNodes :
           []<>~LoopReady(i) \/ []<><<LoopRuns(i)>>_vars

\* nothing is on its way
Quiescent == \A i \in LoopNodes : queue[i] = <<>>

\* node i forwarded in this step: then the fingerprint was not in its
\* filter, and is in it now
ForwardsOnlyFresh(i) ==
    (nodes'[i] # nodes[i] /\ Passed(nodes'[i], "forward"))
        => /\ ~filter_check(nodes[i].filter, InputFingerprint(nodes'[i]))
           /\ filter_check(nodes'[i].filter, InputFingerprint(nodes'[i]))

\* the filter of node i keeps what it holds
FilterKeeps(i) ==
    \A k \in DOMAIN nodes[i].filter :
        filter_check(nodes'[i].filter, nodes[i].filter[k])

\* C26: in a network of nodes linked in any topology, cycles included,
\* each node forwards a message only when its fingerprint is not in the
\* node's filter and has it in the filter from then on, so it forwards for
\* a fingerprint at most once while the fingerprint is in its filter; and
\* the frames of a single injected message come to an end: eventually
\* nothing is on its way any more, although no hop count is enforced.
C26_loop_suppression ==
    /\ [][\A i \in LoopNodes : ForwardsOnlyFresh(i) /\ FilterKeeps(i)]_vars
    /\ <>[]Quiescent

\* in the triangle the message came round: every node has taken it, a node
\* dropped it on its second arrival, and nothing is on its way
C26_witness ==
    /\ Quiescent
    /\ \A i \in LoopNodes :
           /\ size(nodes[i].routing_table) = 2
           /\ nodes[i].filter # <<>>
    /\ \E i \in LoopNodes : nodes[i].result = "FilterCheckFailed"

(***************************************************************************)
(* SpecOutcomes: a node whose peers are registered only, or one of them    *)
(* connected, or both, takes from peer 2 one request for itself, of each   *)
(* type whose handler acts on what the application returns; the            *)
(* application returns every kind of action and error.                     *)
(***************************************************************************)
OutcomeTypes == {"GetData", "GetKey", "Post", "PutData", "UnauthorisedPut"}

OutcomeFrames ==
    {Frame(type, AuthorityOf(type), src, DestinationAddress(NodeNames[1], None),
           BodyOf(type, NodeNames[1])) : type \in OutcomeTypes,
                                         src \in HandlerSources}

SomeError == <<2>>

\* a reply (a key to a GetKey), an error to send back, an abort, and a
\* SendOn to no, one and two targets
OutcomeEnvs(bytes) ==
    LET reply == IF bytes[1].message_type = "GetKey"
                 THEN encode(PublicSignKey(0)) ELSE SomeData
    IN {Env({}, Abort, h, 1) :
            h \in {Reply(reply), Response(SomeError), Abort, SendOn(<<>>),
                   SendOn(<<0>>), SendOn(<<0, 2>>)}}

OutcomeDeliver ==
    /\ \E bytes \in OutcomeFrames :
           \E env \in OutcomeEnvs(bytes) :
               Step(1, run(nodes[1], NewMessage(1, bytes), env))
    /\ UNCHANGED queue

NextOutcomes ==
    \/ OutcomeDeliver

SpecOutcomes == InitHandlers /\ [][NextOutcomes]_vars

\* the step takes a first-seen request of the type, whose body decodes, up
\* to its handler
HandlerStep(message_type) ==
    LET message == nodes'[1].input.bytes[1]
    IN /\ FirstSeenStep
       /\ message.message_type = message_type
       /\ decode(message.serialised_body, BodyOf(message_type, 0).kind).ok
       /\ Passed(nodes'[1], "dispatch")

\* the body of the operation's message, and the authority of the node for
\* the name it is about
InputBody(s) == s.input.bytes[1].serialised_body[1]

AuthorityFor(before, s, name) == our_authority(before, name, InputHeader(s))

\* every frame of its own the operation sent carries the message, and the
\* frames went once to each connected target of the name
SentToward(before, s, message, name) ==
    LET frames == OwnFrames(s)
        to == TargetEndpoints(before, name)
    IN /\ \A k \in DOMAIN frames : frames[k].bytes = encode(message)
       /\ {frames[k].endpoint : k \in DOMAIN frames} = to
       /\ Len(frames) = Cardinality(to)

\* the copy of the operation's message sent on to the target
SendOnCopy(before, s, message_type, name, target) ==
    RoutingMessage(message_type,
                   create_send_on(InputHeader(s), before.own_id,
                                  AuthorityFor(before, s, name), target),
                   InputBody(s))

\* the frames of its own the operation sent are the copies of its message
\* of the given type, one copy for each target, each copy once to each
\* connected target of its name
SentOn(before, s, message_type, name) ==
    LET frames == OwnFrames(s)
        targets == s.env.handle.targets
        copy(target) == encode(SendOnCopy(before, s, message_type, name,
                                          target))
        of(target) == SelectSeq(frames, LAMBDA frame : frame.bytes = copy(target))
    IN /\ \A k \in DOMAIN frames :
              \E j \in DOMAIN targets : frames[k].bytes = copy(targets[j])
       /\ \A j \in DOMAIN targets :
              /\ {of(targets[j])[k].endpoint : k \in DOMAIN of(targets[j])}
                     = TargetEndpoints(before, targets[j])
              /\ Len(of(targets[j]))
                     = Cardinality(TargetEndpoints(before, targets[j]))

\* the GetDataResponse to the operation's GetData carrying the result
GetReply(before, s, data) ==
    RoutingMessage("GetDataResponse",
                   create_reply(InputHeader(s), before.own_id,
                                AuthorityFor(before, s,
                                             InputBody(s).name_and_type_id.name)),
                   GetDataResponse(InputBody(s).name_and_type_id, data))

RepliedBack(before, s, name) ==
    LET frames == OwnFrames(s)
        to == TargetEndpoints(before, header_send_to(InputHeader(s)).dest)
    IN /\ \A k \in DOMAIN frames :
              frames[k].bytes[1].message_header
                  = create_reply(InputHeader(s), before.own_id,
                                 AuthorityFor(before, s, name))
       /\ {frames[k].endpoint : k \in DOMAIN frames} = to
       /\ Len(frames) = Cardinality(to)

\* C32: Post follows the Reply/SendOn pattern: when handle_post returns
\* Reply(data) a response is built with create_reply and forwarded via
\* swarm-or-parallel toward send_to().dest; when it returns
\* SendOn(targets) one forwarded Post copy per target is sent toward that
\* target.  (The Reply arm of handle_post sends nothing: TLC finds a
\* violation.)
C32_post_reply_and_send_on ==
    [][HandlerStep("Post") =>
         LET before == nodes[1]
             after == nodes'[1]
             action == after.env.handle
         IN /\ action.tag = "Reply"
                => RepliedBack(before, after, InputBody(after).name)
            /\ action.tag = "SendOn"
                => SentOn(before, after, "Post", InputBody(after).name)]_vars

(***************************************************************************)
(* The relay to a client.  Peer 2 sends messages for this node and for     *)
(* itself, without a reply_to and with the reply_to of a registered peer   *)
(* (0 or 2) or of a name that is not registered; the cache answers or      *)
(* not, and the registry's iteration starts at either endpoint.            *)
(***************************************************************************)
RelayDestinations ==
    {DestinationAddress(d, r) :
         d \in {NodeNames[1], 2},
         r \in {None, Some(0), Some(2), Some(NodeNames[1])}}

RelayFrames ==
    {Frame(type, "Client", SourceAddress(2, None, None), d,
           BodyOf(type, d.dest)) : type \in {"PutData", "GetData"},
                                   d \in RelayDestinations}

RelayEnvs ==
    {Env({}, c, Abort, f) : c \in {Abort, Reply(SomeData)}, f \in Endpoints}

RelayDeliver ==
    /\ \E bytes \in RelayFrames, env \in RelayEnvs :
           Step(1, run(nodes[1], NewMessage(1, bytes), env))
    /\ UNCHANGED queue

\* the deliveries of one expiry period of the filter
NextRelay ==
    \/ RelayDeliver

SpecRelay == InitFwd /\ [][NextRelay]_vars

\* the frames of the operation that carry its input unchanged
Copies(s) == SelectSeq(s.sent, LAMBDA frame : frame.bytes = s.input.bytes)

\* the input asks this node to pass it to a client
RelayResponse(before, s) ==
    LET destination == InputHeader(s).destination
    IN is_some(destination.reply_to) /\ destination.dest = before.own_id

\* after the copies forwarded toward destination.dest: one more copy to
\* the registry's endpoint of a registered reply_to; one more copy to a
\* registered endpoint, and nothing after it, for a reply_to that is not
\* registered; no more copy for a message that is no relay response
Relayed(before, s) ==
    LET destination == InputHeader(s).destination
        n == Cardinality(TargetEndpoints(before, destination.dest))
        copies == Copies(s)
    IN CASE ~RelayResponse(before, s) ->
                /\ Len(copies) = n
                /\ ~Passed(s, "relay")
         [] RelayFallback(before, s) ->
                /\ Len(copies) = n + 1
                /\ copies[n + 1].endpoint \in DOMAIN before.all_connections_0
                /\ Len(s.sent) = n + 1
                /\ s.result = "Ok"
                /\ ~Passed(s, "dispatch")
         [] OTHER ->
                /\ Len(copies) = n + 1
                /\ copies[n + 1].endpoint
                       = before.all_connections_1[
                             unwrap(destination.reply_to)]

\* C33 as stated: every first-seen message with destination.dest = self
\* and a registered reply_to is sent unchanged to exactly the registry's
\* endpoint of reply_to; with a reply_to that is not registered it is sent
\* to exactly one registered endpoint and the processing returns Ok after
\* that send; a message without reply_to or for another destination is
\* never relayed.  (A GetData that the cache answers returns before the
\* relay: TLC finds a violation.)
C33_relay_to_client ==
    [][Delivery(nodes[1], nodes'[1]) = "fresh"
           => Relayed(nodes[1], nodes'[1])]_vars

\* C33 amended: the same for every first-seen message that no cache hit
\* short-circuits and whose body, for a GetData or GetDataResponse,
\* decodes.
C33_relay_to_client_unless_cache_hit ==
    [][(FirstSeenStep /\ ~MalformedCacheMessage(nodes'[1]))
           => Relayed(nodes[1], nodes'[1])]_vars

\* a message went on to peer 2 and then to the registered client 0 on the
\* client's endpoint, and was dispatched after that
C33_witness ==
    LET s == nodes[1]
        copies == Copies(s)
    IN /\ s.op = "run" /\ s.input.type = "NewMessage"
       /\ Passed(s, "relay") /\ Passed(s, "dispatch")
       /\ InputHeader(s).destination = DestinationAddress(s.own_id, Some(0))
       /\ contains_key(s.all_connections_1, 0)
       /\ Len(copies) >= 1
       /\ copies[Len(copies)].endpoint = s.all_connections_1[0]

\* the step takes a frame that does not decode as a RoutingMessage
UndecodableStep ==
    /\ NewMessageStep
    /\ ~decode(nodes'[1].input.bytes, "RoutingMessage").ok

\* C34: a frame that cannot be decoded as a RoutingMessage, from a
\* registered or an unregistered endpoint, causes no send and leaves the
\* registry, routing table, filter, bootstrap fields, identity cache and
\* next_message_id unchanged; the sending peer stays registered and the
\* loop does not panic.
C34_undecodable_frame ==
    [][UndecodableStep =>
         LET before == nodes[1]
             after == nodes'[1]
         IN /\ NoEffect(before, after)
            /\ ~after.panicked
            /\ after.result
                   = IF contains_key(before.all_connections_0,
                                     after.input.endpoint)
                     THEN "Cbor" ELSE "UnknownMessageType"]_vars

\* bytes that do not decode came from a registered peer of a node whose
\* filter holds a fingerprint, and the peer is still registered
C34_witness ==
    LET s == nodes[1] IN
    /\ s.op = "run"
    /\ s.input.type = "NewMessage"
    /\ s.input.bytes = Garbage
    /\ contains_key(s.all_connections_0, s.input.endpoint)
    /\ s.filter # <<>>
    /\ s.result = "Cbor"
    /\ s.sent = <<>>

(***************************************************************************)
(* SpecSwarm: send_swarm_or_parallel on its own.  The node has both peers  *)
(* registered and connected, or one of them; or peer 0 in its routing      *)
(* table, connected, without an entry in the registry (peer 2 passed on    *)
(* the ConnectRequest of 0); or peer 2 in the table without a connection.  *)
(* Connections come and go, and the connection manager may fail to send    *)
(* on any endpoint.                                                        *)
(***************************************************************************)
SwarmStates ==
    LET own == NodeNames[1]
        fresh == new(own, <<Listener(1)>>, Seed, TRUE)
    IN {Joined(1, TRUE, TRUE), Joined(1, TRUE, FALSE),
        Settled(RunAll(fresh,
            <<NewMessage(1, BootstrapIdRequestFrame(2)),
              NewMessage(1, ConnectRequestFrame(2, own, 1)),
              NewConnection(1),
              NewMessage(1, ConnectRequestFrame(0, own, 2)),
              NewConnection(2)>>)),
        Settled(RunAll(fresh,
            <<NewMessage(1, BootstrapIdRequestFrame(2)),
              NewMessage(2, BootstrapIdRequestFrame(0)),
              NewMessage(1, ConnectRequestFrame(2, own, 1)),
              NewMessage(2, ConnectRequestFrame(0, own, 2)),
              NewConnection(2)>>))}

InitSwarm ==
    /\ \E s \in SwarmStates : nodes = [i \in {1} |-> s]
    /\ queue = [i \in {1} |-> <<>>]
    /\ hist = [i \in {1} |-> HistInit]

SwarmEnvs == {Env(f, Abort, Abort, 1) : f \in SUBSET Endpoints}

CallSendSwarmOrParallel ==
    /\ \E target \in Names, env \in SwarmEnvs,
          bytes \in {Garbage, encode(PublicSignKey(0))} :
           LET input == [target |-> target, serialised_message |-> bytes]
           IN Step(1, Ret(send_swarm_or_parallel(
                              Begin(nodes[1], "send_swarm_or_parallel",
                                    input, env),
                              target, bytes), "Ok"))
    /\ UNCHANGED queue

NextSwarm ==
    \/ CallSendSwarmOrParallel
    \/ EnvNewConnection
    \/ EnvLostConnection

SpecSwarm == InitSwarm /\ [][NextSwarm]_vars

SwarmStep == nodes'[1].op = "send_swarm_or_parallel"

\* the peers the routing table selects for the target that have a
\* connected endpoint and an entry in the registry, in the table's order
Eligible(s, target) ==
    SelectSeq(target_nodes(s.routing_table, s.own_id, target),
              LAMBDA peer : /\ is_some(peer.connected_endpoint)
                            /\ contains_key(s.all_connections_1, peer.id))

\* C35: send_swarm_or_parallel(target, bytes) sends the unchanged bytes
\* once to each peer the routing table selects for target that has a
\* connected_endpoint and an entry in the registry, on the registry's
\* endpoint, and to no other peer; a send that fails is not repeated and
\* the sends after it take place; the node's state stays as it was.
C35_send_swarm_or_parallel ==
    [][SwarmStep =>
         LET before == nodes[1]
             after == nodes'[1]
             peers == Eligible(before, after.input.target)
         IN /\ Len(after.sent) = Len(peers)
            /\ \A k \in DOMAIN peers :
                   /\ after.sent[k].endpoint
                          = before.all_connections_1[peers[k].id]
                   /\ after.sent[k].bytes = after.input.serialised_message
                   /\ \A l \in DOMAIN peers : peers[l].id = peers[k].id => l = k
            /\ Core(after) = Core(before)
            /\ after.dialled = <<>> /\ after.calls = <<>>]_vars

\* the first of two sends failed and the second one took place
C35_witness ==
    LET s == nodes[1] IN
    /\ s.op = "send_swarm_or_parallel"
    /\ Len(s.sent) = 2
    /\ ~s.sent[1].ok /\ s.sent[2].ok
    /\ s.sent[1].endpoint # s.sent[2].endpoint
    /\ s.sent[2].bytes = s.input.serialised_message

(***************************************************************************)
(* The transport's reader (tcp_connections.rs).  upgrade_reader starts a   *)
(* thread that decodes the items of the stream one after the other and     *)
(* hands them to the channel.  A thread is the record                      *)
(*   pc       where the thread is: "decode", "send", "error", "shutdown",  *)
(*            "done", or "panicked";                                       *)
(*   a        the value decoded and not yet sent;                          *)
(*   buffer   the items of the stream not yet read (the peer has closed    *)
(*            its side after the last one);                                *)
(*   in_rec   what the receiving side of the channel was given;            *)
(*   closed   the receiving side of the channel is closed;                 *)
(*   shut     the read half of the stream is shut down.                    *)
(* The items are of the type the stream was upgraded for, or bytes that do *)
(* not decode.  At the end of the stream the decoder's iterator yields an  *)
(* error or nothing; unwrap() panics on nothing.                           *)
(***************************************************************************)
MaxStream == 3

StreamItems == {encode(PublicSignKey(0)), encode(PublicSignKey(1)), Garbage}

Streams == UNION {[1..n -> StreamItems] : n \in 0..MaxStream}

upgrade_reader(stream) ==
    [pc |-> "decode", a |-> None, buffer |-> stream, in_rec |-> <<>>,
     closed |-> FALSE, shut |-> FALSE]

\* a reader that goes on reading after a decode error
reader_step_keeps_reading(t, at_end) ==
    CASE t.pc = "decode" ->
           IF t.buffer = <<>>
           THEN [t EXCEPT !.pc = IF at_end = "error" THEN "error"
                                 ELSE "panicked"]
           ELSE LET item == decode(Head(t.buffer), "PublicSignKey")
                IN [t EXCEPT !.buffer = Tail(@),
                             !.a = IF item.ok THEN Some(item.v) ELSE None,
                             !.pc = IF item.ok THEN "send" ELSE "error"]
      [] t.pc = "send" ->
           IF t.closed THEN [t EXCEPT !.pc = "shutdown", !.a = None]
           ELSE [t EXCEPT !.in_rec = Append(@, [ok |-> TRUE, v |-> unwrap(t.a)]),
                          !.a = None, !.pc = "decode"]
      [] t.pc = "error" ->
           [t EXCEPT !.in_rec = IF t.closed THEN @
                                ELSE Append(@, [ok |-> FALSE, v |-> "CborError"]),
                     !.pc = IF t.buffer = <<>> THEN "shutdown" ELSE "decode"]
      [] t.pc = "shutdown" -> [t EXCEPT !.shut = TRUE, !.pc = "done"]
      [] OTHER -> t

\* one step of the thread: the decoding of the next item, in_snd.send(a),
\* in_snd.error(e), or the shutdown after the loop
reader_step(t, at_end) ==
    CASE t.pc = "decode" ->
           IF t.buffer = <<>>
           THEN [t EXCEPT !.pc = IF at_end = "error" THEN "error"
                                 ELSE "panicked"]
           ELSE LET item == decode(Head(t.buffer), "PublicSignKey")
                IN [t EXCEPT !.buffer = Tail(@),
                             !.a = IF item.ok THEN Some(item.v) ELSE None,
                             !.pc = IF item.ok THEN "send" ELSE "error"]
      [] t.pc = "send" ->
           IF t.closed THEN [t EXCEPT !.pc = "shutdown", !.a = None]
           ELSE [t EXCEPT !.in_rec = Append(@, [ok |-> TRUE, v |-> unwrap(t.a)]),
                          !.a = None, !.pc = "decode"]
      [] t.pc = "error" ->
           [t EXCEPT !.in_rec = IF t.closed THEN @
                                ELSE Append(@, [ok |-> FALSE, v |-> "CborError"]),
                     !.pc = "shutdown"]
      [] t.pc = "shutdown" -> [t EXCEPT !.shut = TRUE, !.pc = "done"]
      [] OTHER -> t

(***************************************************************************)
(* SpecReader: one reader thread on a stream of up to MaxStream items; the *)
(* owner of the receiving side may close it at any time.  nodes[1] is the  *)
(* thread, queue[1] the stream it was started on, hist[1] what the thread  *)
(* has been through.                                                       *)
(***************************************************************************)
InitReader ==
    /\ \E stream \in Streams :
           /\ nodes = [i \in {1} |-> upgrade_reader(stream)]
           /\ queue = [i \in {1} |-> stream]
    /\ hist = [i \in {1} |-> [error_read |-> FALSE, send_failed |-> FALSE]]

ReaderRuns ==
    /\ nodes[1].pc \notin {"done", "panicked"}
    /\ \E at_end \in {"error", "nothing"} :
           nodes' = [nodes EXCEPT ![1] = reader_step(@, at_end)]
    /\ hist' = [hist EXCEPT
                  ![1].error_read = @ \/ nodes'[1].pc = "error",
                  ![1].send_failed =
                      @ \/ (nodes[1].pc = "send" /\ nodes[1].closed)]
    /\ UNCHANGED queue

ReceiverCloses ==
    /\ ~nodes[1].closed
    /\ nodes' = [nodes EXCEPT ![1].closed = TRUE]
    /\ UNCHANGED <<queue, hist>>

NextReader ==
    \/ ReaderRuns
    \/ ReceiverCloses

\* the thread runs for as long as it has a step to take
SpecReader ==
    InitReader /\ [][NextReader]_vars /\ WF_vars(ReaderRuns)

RECURSIVE DecodedUntilError(_)
\* the values of the items of the stream up to its first item that does
\* not decode
DecodedUntilError(stream) ==
    IF stream = <<>> THEN <<>>
    ELSE LET item == decode(Head(stream), "PublicSignKey")
         IN IF item.ok
            THEN <<[ok |-> TRUE, v |-> item.v]>>
                     \o DecodedUntilError(Tail(stream))
            ELSE <<>>

IsPrefixOf(s, t) == Len(s) <= Len(t) /\ \A k \in DOMAIN s : s[k] = t[k]

\* the values the channel was given, without the error at its end
Values(in_rec) == SelectSeq(in_rec, LAMBDA x : x.ok)

\* the values were delivered in the order of the stream, and an error is
\* the last thing delivered
DeliveredInOrder ==
    LET in_rec == nodes[1].in_rec
    IN /\ IsPrefixOf(Values(in_rec), DecodedUntilError(queue[1]))
       /\ \A k \in DOMAIN in_rec : ~in_rec[k].ok => k = Len(in_rec)

\* the thread has finished: the loop is left and the read half shut down
ReaderStopped == nodes[1].pc = "done" /\ nodes[1].shut

\* C36: the reader thread delivers the decoded values in the order of the
\* stream; at the first decode error it delivers the error (to a receiving
\* side that is open), reads no more and shuts down the read half, and
\* nothing is delivered after an error; once a send has found the
\* receiving side closed it reads and delivers no more and stops.
C36_transport_reader ==
    /\ []DeliveredInOrder
    /\ [][(nodes[1].pc = "error" /\ ~nodes[1].closed /\ nodes'[1].pc # "error")
              => nodes'[1].in_rec
                     = Append(nodes[1].in_rec,
                              [ok |-> FALSE, v |-> "CborError"])]_vars
    /\ [][(hist[1].error_read \/ hist[1].send_failed)
              => /\ nodes'[1].buffer = nodes[1].buffer
                 /\ Values(nodes'[1].in_rec) = Values(nodes[1].in_rec)]_vars
    /\ (hist[1].error_read \/ hist[1].send_failed) ~> ReaderStopped

\* two values and then the error of the stream's third item, which does
\* not decode, were delivered, and the read half is shut down
C36_witness ==
    LET t == nodes[1] IN
    /\ Len(queue[1]) = 3 /\ queue[1][3] = Garbage
    /\ Len(t.in_rec) = 3
    /\ t.in_rec[1].ok /\ t.in_rec[2].ok /\ ~t.in_rec[3].ok
    /\ t.in_rec[1] # t.in_rec[2]
    /\ t.shut
    /\ ~t.closed

\* C37: run() never panics: whenever a BootstrapIdResponse from an
\* unregistered endpoint is processed, bootstrap_node_id is still empty
\* and bootstrap_endpoint is the sending endpoint, and
\* send_to_bootstrap_node is never reached with bootstrap_endpoint unset.
\* (A BootstrapIdResponse on an endpoint the node did not bootstrap to
\* fails the assertions of handle_bootstrap_id_response: TLC finds a
\* violation.)
C37_no_panic == ~nodes[1].panicked

\* the step handles a ConnectRequest and accepts the requester
AcceptedRequestStep ==
    /\ NewMessageStep
    /\ FrameOfType(nodes'[1], {"ConnectRequest"})
    /\ Passed(nodes'[1], "dispatch")
    /\ nodes'[1].result = "Ok"

\* the operation sent a ConnectResponse to the endpoint
RespondedOn(s, endpoint) ==
    \E k \in DOMAIN s.sent :
        /\ s.sent[k].endpoint = endpoint
        /\ decode(s.sent[k].bytes, "RoutingMessage").ok
        /\ s.sent[k].bytes[1].message_type = "ConnectResponse"

\* C38: once bootstrap_node_id is set no event changes or clears it, and
\* bootstrap_endpoint is never cleared; the sends to the bootstrap node go
\* to bootstrap_endpoint also after the bootstrap peer is lost.
C38_bootstrap_node_id_write_once ==
    [][LET before == nodes[1]
           after == nodes'[1]
       IN /\ is_some(before.bootstrap_node_id)
                 => after.bootstrap_node_id = before.bootstrap_node_id
          /\ is_some(before.bootstrap_endpoint)
                 => is_some(after.bootstrap_endpoint)
          /\ (AcceptedRequestStep /\ is_some(before.bootstrap_endpoint))
                 => RespondedOn(after, unwrap(before.bootstrap_endpoint))]_vars

\* the bootstrap peer is lost, and the ConnectResponse for another peer
\* went to the endpoint the bootstrap peer had
C38_witness ==
    LET s == nodes[1] IN
    /\ s.op = "run" /\ s.input.type = "NewMessage"
    /\ FrameOfType(s, {"ConnectRequest"})
    /\ s.result = "Ok"
    /\ is_some(s.bootstrap_node_id) /\ is_some(s.bootstrap_endpoint)
    /\ ~contains_key(s.all_connections_1, unwrap(s.bootstrap_node_id))
    /\ ~contains_key(s.all_connections_0, unwrap(s.bootstrap_endpoint))
    /\ RespondedOn(s, unwrap(s.bootstrap_endpoint))

(***************************************************************************)
(* SpecKept: peer 2 sends messages whose processing ends well, fails in    *)
(* each of the ways it can fail, or stops at the close-group gate, and     *)
(* sends them again; the filter forgets its oldest fingerprint from time   *)
(* to time.                                                                *)
(***************************************************************************)
KeptFrames ==
    {PutDataFrame(2, d) : d \in {NodeNames[1], 2}}
    \cup {MalformedGetDataFrame(2, NodeNames[1]),
          PutPublicPmidFrame(2, 0, NodeNames[1]),
          ConnectRequestFrame(2, NodeNames[1], 1),
          BootstrapIdResponseFrame(2)}

KeptDeliver ==
    /\ \E bytes \in KeptFrames, env \in ErrEnvs :
           Step(1, run(nodes[1], NewMessage(1, bytes), env))
    /\ UNCHANGED queue

NextKept ==
    \/ KeptDeliver
    \/ FilterExpires

SpecKept == InitErr /\ [][NextKept]_vars

\* the step hands a message that decodes to the dispatcher
DispatchedStep == Dispatched(nodes[1], nodes'[1])

\* C39: the fingerprint of a first-seen message is in the filter after the
\* processing, however the processing ended, and stays there until the
\* filter expires it; a message whose fingerprint is in the filter is
\* rejected with FilterCheckFailed, is not forwarded and not handled, and
\* changes nothing.
C39_fingerprint_kept ==
    [][LET before == nodes[1]
           after == nodes'[1]
       IN /\ DispatchedStep =>
                 IF filter_check(before.filter, InputFingerprint(after))
                 THEN /\ after.result = "FilterCheckFailed"
                      /\ after.steps = <<"filtered">>
                      /\ NoEffect(before, after)
                 ELSE /\ filter_check(after.filter, InputFingerprint(after))
                      /\ after.result # "FilterCheckFailed"
          /\ after.op # "expire" =>
                 \A entry \in Range(before.filter) :
                     filter_check(after.filter, entry)]_vars

\* a PutPublicPmid rejected with BadAuthority was sent again and the
\* filter rejected it
C39_witness ==
    LET s == nodes[1] IN
    /\ hist[1].repeat = "BadAuthority"
    /\ FrameOfType(s, {"PutPublicPmid"})
    /\ s.result = "FilterCheckFailed"
    /\ filter_check(s.filter, InputFingerprint(s))
    /\ s.sent = <<>>

\* the name the handler of the operation's message takes the authority for
HandledName(s) ==
    LET message_type == s.input.bytes[1].message_type
    IN CASE message_type = "GetData" -> InputBody(s).name_and_type_id.name
         [] message_type = "GetKey" -> InputBody(s).target_id
         [] OTHER -> InputBody(s).name

\* the step runs the handler of a message, and the application answers
\* SendOn
SendOnStep ==
    /\ \E message_type \in OutcomeTypes : HandlerStep(message_type)
    /\ nodes'[1].env.handle.tag = "SendOn"

\* C40: each copy sent for a SendOn(targets) action carries the type tag
\* and the body of the incoming message and the header
\* create_send_on(self, our_authority, target), whatever the handler; an
\* UnauthorisedPut is sent on as an UnauthorisedPut.  (handle_put_data
\* sends every copy as a PutData: TLC finds a violation.)
C40_send_on_preserves_type ==
    [][SendOnStep =>
         LET before == nodes[1]
             after == nodes'[1]
         IN SentOn(before, after, after.input.bytes[1].message_type,
                   HandledName(after))]_vars


====
